---------------------------- MODULE Spec2Model ----------------------------
(* Antfarm pipeline execution engine (src/src/installer/step-ops.ts): the   *)
(* runs / steps / stories tables of the shared SQLite store and the Claim,  *)
(* Complete and Fail operations that workers call on it.                    *)
(*                                                                          *)
(* Every SQL statement of a handler is one atomic statement of the model    *)
(* (the handlers open no transaction, each statement autocommits).  The     *)
(* handlers are written once, as statement-level transition operators on a  *)
(* (store, frame) pair.  Spec runs each call to completion in one action    *)
(* (calls arrive one after the other, in any order); ConcSpec lets the      *)
(* worker processes, which are separate OS processes on the same database   *)
(* file, take one statement at a time.                                      *)
EXTENDS Integers, Sequences, FiniteSets, Bags, TLC

VARIABLES
    db,       \* the store: [runs, steps, stories], each a function id -> row
    now,      \* wall clock, in ticks of one staleness threshold
    todo,     \* workflows that `workflow run` is still going to start
    starting, \* the run whose cron setup runWorkflow is awaiting (0: none)
    handed,   \* bag of step ids: the Claim answers workers have not yet reported on
    procs,    \* ConcSpec: the call frame of every worker process
    calls,    \* ConcSpec: the number of calls begun so far
    rt,       \* TemplateSpec: a resolveTemplate call (arguments, position, result)
    un,       \* UninstallSpec: an uninstall command (arguments, position, log)
    cr,       \* CreateSpec: a runWorkflow call inside its transaction
    dm        \* DaemonSpec: the spawner daemon (activeSessions, poll cycles)

vars == <<db, now, todo, starting, handed, procs, calls, rt, un, cr, dm>>

-----------------------------------------------------------------------------
(* Bounds of the model                                                      *)

\* The clock stops after MaxTime ticks.
MaxTime == 2

\* Ticks per UTC day: the date part of a timestamp is t \div TicksPerDay.
TicksPerDay == 2

\* Story rows per run: a Complete call whose STORIES_JSON block would take a
\* run beyond this is not issued.
MaxStories == 2

\* retry_count has no upper limit in the code (a Fail call on a step that
\* has already failed counts again): a call that would take a counter beyond
\* this is not issued.
MaxRetryCount == 3

\* Tokens in a template handed to resolveTemplate in TemplateSpec.
MaxTemplateLen == 2

\* Worker processes whose calls overlap in ConcSpec.
NumProcs == 2

\* ConcSpec follows the store through this many calls.
MaxCalls == 5

-----------------------------------------------------------------------------
(* Values                                                                   *)

NoId    == <<>>
NoAgent == <<>>
NULL    == "NULL"
NoRow   == [id |-> NoId]
NoCall  == [pc |-> "none"]
NoLoop  == [over |-> "none", verifyEach |-> FALSE, verifyStep |-> ""]

\* const ABANDONED_THRESHOLD_MS = 15 * 60 * 1000, in ticks.
ABANDONED_THRESHOLD_MS == 1

\* max_retries written by the INSERT INTO stories statement.
StoryMaxRetries == 2

\* STORIES_JSON may carry at most this many entries.
MaxStoriesJson == 20

\* const maxRetries = step.max_retries ?? step.on_fail?.max_retries ?? 2
DefaultMaxRetries == 2

(* Timestamps.  new Date().toISOString() writes 'YYYY-MM-DDTHH:MM:SS.sssZ', *)
(* SQLite's datetime('now') writes 'YYYY-MM-DD HH:MM:SS'.  The columns are  *)
(* TEXT and are compared as text.                                           *)
IsoTime(t) == [fmt |-> "iso", t |-> t]
SqlTime(t) == [fmt |-> "sql", t |-> t]
Day(t)     == t \div TicksPerDay

\* a < b as SQLite compares the two texts: the first ten characters are the
\* date; at the eleventh an 'sql' text has ' ' and an 'iso' text has 'T'.
TextLt(a, b) ==
    IF a.fmt = b.fmt THEN a.t < b.t
    ELSE IF a.fmt = "sql" THEN Day(a.t) <= Day(b.t)
    ELSE Day(a.t) < Day(b.t)

-----------------------------------------------------------------------------
(* Workflow definitions (the loaded YAML): ordered steps.                   *)

\* The output texts that occur: what the agents' prompts ask them to reply.
OutDone     == "STATUS: done"
OutRetry    == "STATUS: retry / ISSUES: tests fail"
OutStories  == "STATUS: done / STORIES_JSON: [1, 2]"
OutStory    == "STATUS: done / STORIES_JSON: [1]"
OutDupStory == "STORIES_JSON: [1, 1]"

\* Replies whose STORIES_JSON block is malformed in the other ways.
OutBadJson      == "STORIES_JSON: [1,"
OutNotArray     == "STORIES_JSON: {}"
OutTooMany      == "STORIES_JSON: [1, ..., 21]"
OutMissingField == "STATUS: done / STORIES_JSON: [1, {}]"

\* reports: the texts the step's agent replies with on `step complete`.
WfStep(id, agent, type, maxRetries, loop, reports) ==
    [id |-> id, agent |-> agent, type |-> type, max_retries |-> maxRetries, loop |-> loop,
     reports |-> reports]

VerifyEachLoop == [over |-> "stories", verifyEach |-> TRUE, verifyStep |-> "verify"]
PlainLoop      == [over |-> "stories", verifyEach |-> FALSE, verifyStep |-> ""]

Workflows ==
    [ bugfix  |-> << WfStep("triage", "triager", "single", DefaultMaxRetries, NoLoop, {OutDone}),
                     WfStep("fix", "fixer", "single", 1, NoLoop, {OutDone}),
                     WfStep("pr", "triager", "single", DefaultMaxRetries, NoLoop, {OutDone}) >>,
      feature |-> << WfStep("plan", "planner", "single", 1, NoLoop, {OutStories}),
                     WfStep("implement", "developer", "loop", DefaultMaxRetries, VerifyEachLoop, {OutDone}),
                     WfStep("verify", "verifier", "single", DefaultMaxRetries, NoLoop,
                            {OutDone, OutRetry}) >>,
      audit   |-> << WfStep("scan", "scanner", "single", 1, NoLoop,
                            {OutStory, OutStories, OutDupStory}),
                     WfStep("fixall", "fixer", "loop", DefaultMaxRetries, PlainLoop, {OutDone}) >>,
      review  |-> << WfStep("plan", "planner", "single", 1, NoLoop, {OutStory}),
                     WfStep("implement", "developer", "loop", DefaultMaxRetries, VerifyEachLoop, {OutDone}),
                     WfStep("verify", "verifier", "single", DefaultMaxRetries, NoLoop,
                            {OutDone, OutRetry}) >>,
      patch   |-> << WfStep("apply", "patcher", "single", 1, NoLoop, {OutDone}),
                     WfStep("ship", "patcher", "single", 1, NoLoop, {OutDone}) >> ]

WorkflowIds == DOMAIN Workflows

\* What `antfarm workflow run` is asked to start, in order, in one behaviour.
Scenarios == { <<"bugfix">>, <<"feature">>, <<"audit">>, <<"patch", "patch">> }

AgentId(wf, agent) == <<wf, agent>>

AllAgents ==
    UNION { { AgentId(w, Workflows[w][i].agent) : i \in DOMAIN Workflows[w] } : w \in WorkflowIds }

-----------------------------------------------------------------------------
(* Worker output texts.  A text is a sequence of lines; Lines gives, for    *)
(* each text a worker may report, its lines as the scan of completeStep     *)
(* sees them: key is the [A-Z_]+ prefix before ':' ("" when the line does   *)
(* not have that shape) and value the rest of the line.                     *)

Outputs == { OutDone, OutRetry, OutStory, OutStories, OutDupStory }

Entry(id, ok) == [id |-> id, valid |-> ok]

\* JSON.parse of the text after the STORIES_JSON: prefix.
JsonArray(items) == [kind |-> "array", items |-> items]

Lines(o) ==
    CASE o = OutDone     -> << [key |-> "STATUS", value |-> "done"] >>
      [] o = OutRetry    -> << [key |-> "STATUS", value |-> "retry"],
                               [key |-> "ISSUES", value |-> "tests fail"] >>
      [] o = OutStories  -> << [key |-> "STATUS", value |-> "done"],
                               [key |-> "STORIES_JSON", value |-> "[1, 2]"] >>
      [] o = OutStory    -> << [key |-> "STATUS", value |-> "done"],
                               [key |-> "STORIES_JSON", value |-> "[1]"] >>
      [] o = OutDupStory -> << [key |-> "STORIES_JSON", value |-> "[1, 1]"] >>
      [] o = OutBadJson  -> << [key |-> "STORIES_JSON", value |-> "[1,"] >>
      [] o = OutNotArray -> << [key |-> "STORIES_JSON", value |-> "{}"] >>
      [] o = OutTooMany  -> << [key |-> "STORIES_JSON", value |-> "[1, ..., 21]"] >>
      [] o = OutMissingField -> << [key |-> "STATUS", value |-> "done"],
                                   [key |-> "STORIES_JSON", value |-> "[1, {}]"] >>
      [] OTHER           -> << [key |-> "", value |-> o] >>

ParseJson(text) ==
    CASE text = "[1]"    -> JsonArray(<< Entry(1, TRUE) >>)
      [] text = "[1, 2]" -> JsonArray(<< Entry(1, TRUE), Entry(2, TRUE) >>)
      [] text = "[1, 1]" -> JsonArray(<< Entry(1, TRUE), Entry(1, TRUE) >>)
      [] text = "[1, {}]" -> JsonArray(<< Entry(1, TRUE), Entry(2, FALSE) >>)
      [] text = "{}"     -> [kind |-> "object", items |-> << >>]
      [] text = "[1, ..., 21]" -> JsonArray([k \in 1..(MaxStoriesJson + 1) |-> Entry(k, TRUE)])
      [] OTHER           -> [kind |-> "invalid", items |-> << >>]

\* String.prototype.toLowerCase on the keys that occur.
ToLowerCase(k) ==
    CASE k = "STATUS" -> "status"
      [] k = "ISSUES" -> "issues"
      [] k = "Name"   -> "name"
      [] k = "toString" -> "tostring"
      [] k = "retry"  -> "retry"
      [] k = "done"   -> "done"
      [] OTHER        -> k

Errors == { "boom" }

-----------------------------------------------------------------------------
(* The store                                                                *)

EmptyDb == [runs |-> << >>, steps |-> << >>, stories |-> << >>]

RunIdsOf(d)   == DOMAIN d.runs
StepIdsOf(d)  == DOMAIN d.steps
StoryIdsOf(d) == DOMAIN d.stories

StepsOfRun(d, r)   == { i \in StepIdsOf(d) : d.steps[i].run_id = r }
StoriesOfRun(d, r) == { i \in StoryIdsOf(d) : d.stories[i].run_id = r }

\* Row ids in insertion (rowid) order.
IdLeq(a, b) == a[1] < b[1] \/ (a[1] = b[1] /\ a[2] <= b[2])
FirstRow(S) == CHOOSE x \in S : \A y \in S : IdLeq(x.id, y.id)

\* SELECT cols FROM ... : the columns of a row that a statement reads.
Select(row, cols) == [c \in cols |-> row[c]]

\* Run context: a map from lowercase keys to values.
CtxHas(c, k)    == k \in DOMAIN c
CtxSet(c, k, v) == [x \in (DOMAIN c) \cup {k} |-> IF x = k THEN v ELSE c[x]]
CtxDel(c, k)    == [x \in (DOMAIN c) \ {k} |-> c[x]]

-----------------------------------------------------------------------------
(* Call frames.  A frame is the position of one call (pc) with its          *)
(* arguments and the local variables of the handler.  cas records, for the  *)
(* claim transitions, whether the row still had the status the caller had   *)
(* read when its UPDATE ran (the statement's changes count, which the code  *)
(* does not read).                                                          *)

NoRes == [kind |-> "none"]

Frame0 ==
    [ op |-> "idle", pc |-> "done", agent |-> NoAgent, sid |-> NoId, out |-> "",
      cutoff |-> 0, ab |-> {}, step |-> NoRow, story |-> NoRow, ctx |-> << >>,
      loopId |-> NoId, next |-> NoId, n |-> 0, cas |-> "none", res |-> NoRes ]

ClaimFrame(a)       == [Frame0 EXCEPT !.op = "claim", !.pc = "cl_selSteps", !.agent = a]
CompleteFrame(s, o) == [Frame0 EXCEPT !.op = "complete", !.pc = "k_selStep", !.sid = s, !.out = o]
FailFrame(s, e)     == [Frame0 EXCEPT !.op = "fail", !.pc = "f_selStep", !.sid = s, !.out = e]

\* updated_at is read in two places only: the sweep compares it for rows that
\* are 'running', and handleVerifyEachCompletion orders the 'done' stories by
\* it.  The store keeps the column for those rows; elsewhere, where no
\* statement reads it, the model holds one value for all texts.
Unread == [fmt |-> "any", t |-> 0]

Observable(d) ==
    [d EXCEPT
       !.steps = [i \in DOMAIN @ |->
                    IF @[i].status = "running" THEN @[i]
                    ELSE [@[i] EXCEPT !.updated_at = Unread]],
       !.stories = [i \in DOMAIN @ |->
                    IF @[i].status \in {"running", "done"} THEN @[i]
                    ELSE [@[i] EXCEPT !.updated_at = Unread]]]

St(d, f) == [db |-> Observable(d), f |-> f]

\* return res: the locals die, the arguments and the result stay readable.
Return(d, f, res) ==
    St(d, [Frame0 EXCEPT !.op = f.op, !.agent = f.agent, !.sid = f.sid, !.out = f.out,
                         !.cas = f.cas, !.res = res])

Goto(d, f, pc) == St(d, [f EXCEPT !.pc = pc])

ClaimRes(found, stepId, runId, story) ==
    [kind |-> "claim", found |-> found, stepId |-> stepId, runId |-> runId, story |-> story]
CompleteRes(advanced, runCompleted) ==
    [kind |-> "complete", advanced |-> advanced, runCompleted |-> runCompleted]
FailRes(retrying, runFailed) ==
    [kind |-> "fail", retrying |-> retrying, runFailed |-> runFailed]
Thrown(msg) == [kind |-> "error", message |-> msg]

\* UPDATE steps / stories / runs SET ... WHERE id = ?
SetStep(d, id, row)  == [d EXCEPT !.steps[id] = row]
SetStory(d, id, row) == [d EXCEPT !.stories[id] = row]
\* A run whose status is never written.
RunStatusKept(d, r, s) == d
SetRunStatus(d, r, s) == [d EXCEPT !.runs[r].status = s]
SetRunContext(d, r, c) == [d EXCEPT !.runs[r].context = c]

-----------------------------------------------------------------------------
(* advancePipeline(runId): f.step.run_id is the run.  The caller's result   *)
(* is the advancer's, except in claimStep, which returns { found: false }.  *)

AdvanceResult(f, advanced, runCompleted) ==
    IF f.op = "claim" THEN ClaimRes(FALSE, NoId, 0, NoId)
    ELSE CompleteRes(advanced, runCompleted)

WaitingSteps(d, r) == { i \in StepsOfRun(d, r) : d.steps[i].status = "waiting" }

\* The same SELECT without its ORDER BY.
AnyWaiting(d, r) == WaitingSteps(d, r)

\* ... WHERE run_id = ? AND status = 'waiting' ORDER BY step_index ASC LIMIT 1
LowestWaiting(d, r) ==
    { i \in WaitingSteps(d, r) :
        \A j \in WaitingSteps(d, r) : d.steps[i].step_index <= d.steps[j].step_index }

advancePipeline(d, f, t, ch) ==
    LET r == f.step.run_id IN
    CASE f.pc = "a_runStatus" ->
           IF d.runs[r].status = "failed"
           THEN Return(d, f, AdvanceResult(f, FALSE, FALSE))
           ELSE Goto(d, f, "a_selNext")
      [] f.pc = "a_selNext" ->
           IF ch # NoId
           THEN St(d, [f EXCEPT !.pc = "a_promote", !.next = ch])
           ELSE Goto(d, f, "a_complete")
      [] f.pc = "a_promote" ->
           Return(SetStep(d, f.next, [d.steps[f.next] EXCEPT
                      !.status = "pending", !.updated_at = SqlTime(t)]),
                  f, AdvanceResult(f, TRUE, FALSE))
      [] f.pc = "a_complete" ->
           Return(SetRunStatus(d, r, "completed"), f, AdvanceResult(f, FALSE, TRUE))

-----------------------------------------------------------------------------
(* cleanupAbandonedSteps(): the sweep at the start of every claimStep.      *)

StepSnapshot(row) == Select(row, {"id", "run_id", "retry_count", "max_retries"})

\* ... WHERE status = 'running' AND updated_at < ?
AbandonedSteps(d, cutoff) ==
    { StepSnapshot(d.steps[i]) : i \in
        { j \in StepIdsOf(d) : d.steps[j].status = "running"
                               /\ TextLt(d.steps[j].updated_at, cutoff) } }

AbandonedStories(d, cutoff) ==
    { StepSnapshot(d.stories[i]) : i \in
        { j \in StoryIdsOf(d) : d.stories[j].status = "running"
                                /\ TextLt(d.stories[j].updated_at, cutoff) } }

AbandonedOutput == "Agent abandoned step without completing"

\* if (newRetry >= step.max_retries): fail the step (story), else reset it.
ReaperNeverExhausted(newRetry, maxRetries) == FALSE
ReaperExhausted(newRetry, maxRetries) == newRetry >= maxRetries

cleanupAbandonedSteps(d, f, t, ch) ==
    LET s        == FirstRow(f.ab)
        newRetry == s.retry_count + 1
        rest     == f.ab \ {s}
        stories  == AbandonedStories(d, IsoTime(f.cutoff))
    IN
    CASE f.pc = "cl_selSteps" ->
           LET cutoff == t - ABANDONED_THRESHOLD_MS
               found  == AbandonedSteps(d, IsoTime(cutoff))
           IN St(d, [f EXCEPT !.cutoff = cutoff, !.ab = found,
                              !.pc = IF found = {} THEN "cl_selStories" ELSE "cl_step"])
      [] f.pc = "cl_step" ->
           IF ReaperExhausted(newRetry, s.max_retries)
           THEN Goto(SetStep(d, s.id, [d.steps[s.id] EXCEPT
                        !.status = "failed", !.output = AbandonedOutput,
                        !.retry_count = newRetry, !.updated_at = SqlTime(t)]),
                     f, "cl_failRun")
           ELSE St(SetStep(d, s.id, [d.steps[s.id] EXCEPT
                        !.status = "pending", !.retry_count = newRetry,
                        !.updated_at = SqlTime(t)]),
                   [f EXCEPT !.ab = rest,
                             !.pc = IF rest = {} THEN "cl_selStories" ELSE "cl_step"])
      [] f.pc = "cl_failRun" ->
           St(SetRunStatus(d, s.run_id, "failed"),
              [f EXCEPT !.ab = rest,
                        !.pc = IF rest = {} THEN "cl_selStories" ELSE "cl_step"])
      [] f.pc = "cl_selStories" ->
           St(d, [f EXCEPT !.ab = stories, !.cutoff = 0,
                           !.pc = IF stories = {} THEN "c_selStep" ELSE "cl_story"])
      [] f.pc = "cl_story" ->
           St(SetStory(d, s.id, [d.stories[s.id] EXCEPT
                  !.status = IF ReaperExhausted(newRetry, s.max_retries)
                             THEN "failed" ELSE "pending",
                  !.retry_count = newRetry, !.updated_at = SqlTime(t)]),
              [f EXCEPT !.ab = rest,
                        !.pc = IF rest = {} THEN "c_selStep" ELSE "cl_story"])

-----------------------------------------------------------------------------
(* claimStep(agentId), after the sweep.                                     *)

OrNone(S) == IF S = {} THEN {NoId} ELSE S

\* ... FROM steps WHERE agent_id = ? AND status = 'pending' LIMIT 1
PendingStepsOf(d, a) ==
    { i \in StepIdsOf(d) : d.steps[i].agent_id = a /\ d.steps[i].status = "pending" }

PendingStories(d, r) == { i \in StoriesOfRun(d, r) : d.stories[i].status = "pending" }

\* ... WHERE run_id = ? AND status = 'pending' ORDER BY story_index ASC LIMIT 1
NextStories(d, r) ==
    { i \in PendingStories(d, r) :
        \A j \in PendingStories(d, r) : d.stories[i].story_index <= d.stories[j].story_index }

\* The template variables claimStep writes for a loop item.
StoryContext(d, c, story) ==
    LET all     == StoriesOfRun(d, story.run_id)
        done    == { i \in all : d.stories[i].status = "done" }
        pending == { i \in all : d.stories[i].status \in {"pending", "running"} }
        c1 == CtxSet(c, "current_story", story.story_id)
        c2 == CtxSet(c1, "current_story_id", story.story_id)
        c3 == CtxSet(c2, "current_story_title", story.story_id)
        c4 == CtxSet(c3, "completed_stories", done)
        c5 == CtxSet(c4, "stories_remaining", Cardinality(pending))
        c6 == CtxSet(c5, "progress", "(progress)")
    IN IF CtxHas(c6, "verify_feedback") /\ c6["verify_feedback"] # ""
       THEN c6 ELSE CtxSet(c6, "verify_feedback", "")

\* A claimStep without its run-status guard.
ClaimGuardMissing(status) == FALSE

\* if (runStatus?.status === "failed") return { found: false };
ClaimGuard(status) == status = "failed"

claimStep(d, f, t, ch) ==
    LET r == f.step.run_id IN
    CASE f.pc = "c_selStep" ->
           IF ch = NoId
           THEN Return(d, f, ClaimRes(FALSE, NoId, 0, NoId))
           ELSE St(d, [f EXCEPT !.step = Select(d.steps[ch], {"id", "run_id", "type", "loop_config"}),
                                !.pc = "c_runStatus"])
      [] f.pc = "c_runStatus" ->
           IF ClaimGuard(d.runs[r].status)
           THEN Return(d, f, ClaimRes(FALSE, NoId, 0, NoId))
           ELSE Goto(d, f, "c_selCtx")
      [] f.pc = "c_selCtx" ->
           St(d, [f EXCEPT !.ctx = d.runs[r].context,
                           !.pc = IF f.step.type = "loop" /\ f.step.loop_config.over = "stories"
                                  THEN "c_nextStory" ELSE "c_updSingle"])
      [] f.pc = "c_nextStory" ->
           IF ch = NoId
           THEN Goto(d, f, "c_loopDone")
           ELSE St(d, [f EXCEPT !.story = Select(d.stories[ch], {"id", "run_id", "story_id"}),
                                !.pc = "c_updStory"])
      [] f.pc = "c_loopDone" ->
           Goto(SetStep(d, f.step.id, [d.steps[f.step.id] EXCEPT
                    !.status = "done", !.updated_at = SqlTime(t)]),
                f, "a_runStatus")
      [] f.pc = "c_updStory" ->
           St(SetStory(d, f.story.id, [d.stories[f.story.id] EXCEPT
                  !.status = "running", !.updated_at = SqlTime(t)]),
              [f EXCEPT !.pc = "c_updLoopStep",
                        !.cas = IF d.stories[f.story.id].status = "pending"
                                THEN "won" ELSE "lost"])
      [] f.pc = "c_updLoopStep" ->
           Goto(SetStep(d, f.step.id, [d.steps[f.step.id] EXCEPT
                    !.status = "running", !.current_story_id = f.story.id,
                    !.updated_at = SqlTime(t)]),
                f, "c_getStories")
      [] f.pc = "c_getStories" ->
           St(d, [f EXCEPT !.ctx = StoryContext(d, f.ctx, f.story), !.pc = "c_persistCtx"])
      [] f.pc = "c_persistCtx" ->
           Return(SetRunContext(d, r, f.ctx), f,
                  ClaimRes(TRUE, f.step.id, r, f.story.id))
      [] f.pc = "c_updSingle" ->
           \* UPDATE steps SET status = 'running' ... WHERE id = ? AND status = 'pending';
           \* the changes count is not read, the step is returned either way.
           IF d.steps[f.step.id].status = "pending"
           THEN Return(SetStep(d, f.step.id, [d.steps[f.step.id] EXCEPT
                           !.status = "running", !.updated_at = SqlTime(t)]),
                       [f EXCEPT !.cas = "won"], ClaimRes(TRUE, f.step.id, r, NoId))
           ELSE Return(d, [f EXCEPT !.cas = "lost"], ClaimRes(TRUE, f.step.id, r, NoId))

-----------------------------------------------------------------------------
(* completeStep(stepId, output)                                             *)

StartsWithStoriesJson(key) == key = "STORIES_JSON"

\* for (const line of output.split("\n")): line.match(/^([A-Z_]+):\s*(.+)$/)
RECURSIVE MergeLines(_, _)
MergeLines(c, lines) ==
    IF lines = << >> THEN c
    ELSE LET l == Head(lines) IN
         MergeLines(IF l.key # "" /\ l.value # "" /\ ~StartsWithStoriesJson(l.key)
                    THEN CtxSet(c, ToLowerCase(l.key), l.value)
                    ELSE c,
                    Tail(lines))

\* lines.findIndex(l => l.startsWith("STORIES_JSON:")), and the JSON text from there.
StoriesLines(o) == SelectSeq(Lines(o), LAMBDA l : StartsWithStoriesJson(l.key))
HasStoriesJson(o) == StoriesLines(o) # << >>
StoriesJson(o) == ParseJson(StoriesLines(o)[1].value)

\* Where completeStep goes once parseAndInsertStories has returned.
AfterStories(f) ==
    IF f.step.type = "loop" /\ f.step.current_story_id # NoId
    THEN "k_storyDone" ELSE "k_selLoopRow"

\* crypto.randomUUID() for a story row of run r.
NewStoryId(d, r) == <<r, Cardinality(StoriesOfRun(d, r)) + 1>>

parseAndInsertStories(d, f, t, ch) ==
    LET r     == f.step.run_id
        json  == StoriesJson(f.out)
        items == json.items
        i     == f.n + 1
        s     == items[i]
        seenIds == { items[k].id : k \in 1..f.n }
        id    == NewStoryId(d, r)
    IN
    CASE f.pc = "p_parse" ->
           IF ~HasStoriesJson(f.out) THEN Goto(d, f, AfterStories(f))
           ELSE IF json.kind = "invalid" THEN Return(d, f, Thrown("Failed to parse STORIES_JSON"))
           ELSE IF json.kind # "array" THEN Return(d, f, Thrown("STORIES_JSON must be an array"))
           ELSE IF Len(items) > MaxStoriesJson THEN Return(d, f, Thrown("max is 20"))
           ELSE IF Len(items) = 0 THEN Goto(d, f, AfterStories(f))
           ELSE St(d, [f EXCEPT !.n = 0, !.pc = "p_insert"])
      [] f.pc = "p_insert" ->
           IF ~s.valid THEN Return(d, f, Thrown("missing required fields"))
           ELSE IF s.id \in seenIds THEN Return(d, f, Thrown("duplicate story id"))
           ELSE St([d EXCEPT !.stories = @ @@ (id :>
                        [id |-> id, run_id |-> r, story_index |-> i - 1, story_id |-> s.id,
                         status |-> "pending", output |-> NULL, retry_count |-> 0,
                         max_retries |-> StoryMaxRetries, updated_at |-> IsoTime(t)])],
                   [f EXCEPT !.n = i,
                             !.pc = IF i = Len(items) THEN AfterStories(f) ELSE "p_insert"])

\* ... WHERE run_id = ? AND type = 'loop' AND status = 'running' LIMIT 1
RunningLoopSteps(d, r) ==
    { i \in StepsOfRun(d, r) : d.steps[i].type = "loop" /\ d.steps[i].status = "running" }

\* ... WHERE run_id = ? AND step_id = ?
StepsNamed(d, r, name) == { i \in StepsOfRun(d, r) : d.steps[i].step_id = name }

\* A loop that never hands its story to a verification step.
VerifyEachOff(lc) == FALSE

\* if (loopConfig?.verifyEach && loopConfig.verifyStep)
VerifyEachOn(lc) == lc.verifyEach /\ lc.verifyStep # ""

\* A completeStep without its run-status guard.
CompleteGuardMissing(status) == FALSE

\* if (runCheck?.status === "failed") return { advanced: false, runCompleted: false };
CompleteGuard(status) == status = "failed"

completeStep(d, f, t, ch) ==
    LET r == f.step.run_id IN
    CASE f.pc = "k_selStep" ->
           St(d, [f EXCEPT !.step = Select(d.steps[f.sid], {"id", "run_id", "step_id", "step_index",
                                                           "type", "loop_config", "current_story_id"}),
                           !.pc = "k_runCheck"])
      [] f.pc = "k_runCheck" ->
           IF CompleteGuard(d.runs[r].status)
           THEN Return(d, f, CompleteRes(FALSE, FALSE))
           ELSE Goto(d, f, "k_selCtx")
      [] f.pc = "k_selCtx" ->
           St(d, [f EXCEPT !.ctx = MergeLines(d.runs[r].context, Lines(f.out)),
                           !.pc = "k_updCtx"])
      [] f.pc = "k_updCtx" ->
           Goto(SetRunContext(d, r, f.ctx), f, "p_parse")
      [] f.pc = "k_storyDone" ->
           Goto(SetStory(d, f.step.current_story_id, [d.stories[f.step.current_story_id] EXCEPT
                    !.status = "done", !.output = f.out, !.updated_at = SqlTime(t)]),
                f, "k_clearCur")
      [] f.pc = "k_clearCur" ->
           St(SetStep(d, f.step.id, [d.steps[f.step.id] EXCEPT
                  !.current_story_id = NoId, !.output = f.out, !.updated_at = SqlTime(t)]),
              [f EXCEPT !.loopId = f.step.id,
                        !.pc = IF VerifyEachOn(f.step.loop_config)
                               THEN "k_selVerify" ELSE "l_selPending"])
      [] f.pc = "k_selVerify" ->
           IF ch # NoId
           THEN St(d, [f EXCEPT !.next = ch, !.pc = "k_verifyPending"])
           ELSE Goto(d, f, "l_selPending")
      [] f.pc = "k_verifyPending" ->
           Goto(SetStep(d, f.next, [d.steps[f.next] EXCEPT
                    !.status = "pending", !.updated_at = SqlTime(t)]),
                f, "k_loopRunning")
      [] f.pc = "k_loopRunning" ->
           Return(SetStep(d, f.step.id, [d.steps[f.step.id] EXCEPT
                      !.status = "running", !.updated_at = SqlTime(t)]),
                  f, CompleteRes(FALSE, FALSE))
      [] f.pc = "k_selLoopRow" ->
           IF ch # NoId /\ d.steps[ch].loop_config.verifyEach
                        /\ d.steps[ch].loop_config.verifyStep = f.step.step_id
           THEN St(d, [f EXCEPT !.loopId = ch, !.pc = "v_verifyWaiting"])
           ELSE Goto(d, f, "k_stepDone")
      [] f.pc = "k_stepDone" ->
           Goto(SetStep(d, f.sid, [d.steps[f.sid] EXCEPT
                    !.status = "done", !.output = f.out, !.updated_at = SqlTime(t)]),
                f, "a_runStatus")

-----------------------------------------------------------------------------
(* handleVerifyEachCompletion(verifyStep, loopStepId, output, context):     *)
(* f.step is the verification step, f.loopId the loop step.                 *)

DoneStories(d, r) == { i \in StoriesOfRun(d, r) : d.stories[i].status = "done" }

\* ... WHERE run_id = ? AND status = 'done' ORDER BY updated_at DESC LIMIT 1
LastDoneStories(d, r) ==
    { i \in DoneStories(d, r) :
        \A j \in DoneStories(d, r) : ~TextLt(d.stories[i].updated_at, d.stories[j].updated_at) }

\* The sweep's test in place of failStep's.
RetriesExhaustedAtMax(newRetry, maxRetries) == newRetry >= maxRetries

\* if (newRetry > max_retries): retries exhausted.
RetriesExhausted(newRetry, maxRetries) == newRetry > maxRetries

VerifyStatus(c) == IF CtxHas(c, "status") THEN ToLowerCase(c["status"]) ELSE "undefined"

\* A verification that never passes.
VerifyAlwaysRetry(status) == TRUE

\* if (status === "retry"): verification failed, retry the story.
VerifyRetry(status) == status = "retry"

handleVerifyEachCompletion(d, f, t, ch) ==
    LET r        == f.step.run_id
        newRetry == f.story.retry_count + 1
        issues   == IF CtxHas(f.ctx, "issues") THEN f.ctx["issues"] ELSE f.out
    IN
    CASE f.pc = "v_verifyWaiting" ->
           Goto(SetStep(d, f.step.id, [d.steps[f.step.id] EXCEPT
                    !.status = "waiting", !.output = f.out, !.updated_at = SqlTime(t)]),
                f, IF VerifyRetry(VerifyStatus(f.ctx)) THEN "v_selLastDone" ELSE "v_clearFeedback")
      [] f.pc = "v_selLastDone" ->
           IF ch = NoId THEN Goto(d, f, "v_loopPending")
           ELSE St(d, [f EXCEPT !.story = StepSnapshot(d.stories[ch]),
                                !.pc = IF RetriesExhausted(d.stories[ch].retry_count + 1,
                                                           d.stories[ch].max_retries)
                                       THEN "v_storyFailed" ELSE "v_storyPending"])
      [] f.pc = "v_storyFailed" ->
           Goto(SetStory(d, f.story.id, [d.stories[f.story.id] EXCEPT
                    !.status = "failed", !.retry_count = newRetry, !.updated_at = SqlTime(t)]),
                f, "v_loopFailed")
      [] f.pc = "v_loopFailed" ->
           Goto(SetStep(d, f.loopId, [d.steps[f.loopId] EXCEPT
                    !.status = "failed", !.updated_at = SqlTime(t)]),
                f, "v_runFailed")
      [] f.pc = "v_runFailed" ->
           Return(SetRunStatus(d, r, "failed"), f, CompleteRes(FALSE, FALSE))
      [] f.pc = "v_storyPending" ->
           St(SetStory(d, f.story.id, [d.stories[f.story.id] EXCEPT
                  !.status = "pending", !.retry_count = newRetry, !.updated_at = SqlTime(t)]),
              [f EXCEPT !.ctx = CtxSet(f.ctx, "verify_feedback", issues), !.pc = "v_feedback"])
      [] f.pc = "v_feedback" ->
           Goto(SetRunContext(d, r, f.ctx), f, "v_loopPending")
      [] f.pc = "v_loopPending" ->
           Return(SetStep(d, f.loopId, [d.steps[f.loopId] EXCEPT
                      !.status = "pending", !.updated_at = SqlTime(t)]),
                  f, CompleteRes(FALSE, FALSE))
      [] f.pc = "v_clearFeedback" ->
           St(SetRunContext(d, r, CtxDel(f.ctx, "verify_feedback")),
              [f EXCEPT !.ctx = CtxDel(f.ctx, "verify_feedback"), !.pc = "l_selPending"])

-----------------------------------------------------------------------------
(* checkLoopContinuation(runId, loopStepId): f.loopId is the loop step.     *)

checkLoopContinuation(d, f, t, ch) ==
    LET r  == f.step.run_id
        lc == d.steps[f.loopId].loop_config
        verifySteps == StepsNamed(d, r, lc.verifyStep)
    IN
    CASE f.pc = "l_selPending" ->
           Goto(d, f, IF ch # NoId THEN "l_loopPending" ELSE "l_loopDone")
      [] f.pc = "l_loopPending" ->
           Return(SetStep(d, f.loopId, [d.steps[f.loopId] EXCEPT
                      !.status = "pending", !.updated_at = SqlTime(t)]),
                  f, CompleteRes(FALSE, FALSE))
      [] f.pc = "l_loopDone" ->
           Goto(SetStep(d, f.loopId, [d.steps[f.loopId] EXCEPT
                    !.status = "done", !.updated_at = SqlTime(t)]),
                f, "l_selLoopCfg")
      [] f.pc = "l_selLoopCfg" ->
           Goto(d, f, IF VerifyEachOn(lc) THEN "l_verifyDone" ELSE "a_runStatus")
      [] f.pc = "l_verifyDone" ->
           Goto([d EXCEPT !.steps = [i \in DOMAIN @ |->
                        IF i \in verifySteps
                        THEN [@[i] EXCEPT !.status = "done", !.updated_at = SqlTime(t)]
                        ELSE @[i]]],
                f, "a_runStatus")

-----------------------------------------------------------------------------
(* failStep(stepId, error): f.step is the row read at entry.                *)

\* A retry that starts the count again.
RetryCountReset(retryCount) == 0

\* const newRetryCount = step.retry_count + 1;
NewRetryCount(retryCount) == retryCount + 1

\* if (step.type === "loop" && step.current_story_id)
LoopItemIgnored(row) == FALSE
LoopItemInProgress(row) == row.type = "loop" /\ row.current_story_id # NoId

failStep(d, f, t, ch) ==
    LET r             == f.step.run_id
        cur           == f.step.current_story_id
        newRetry      == f.story.retry_count + 1
        newRetryCount == NewRetryCount(f.step.retry_count)
    IN
    CASE f.pc = "f_selStep" ->
           LET row == Select(d.steps[f.sid], {"run_id", "retry_count", "max_retries", "type",
                                              "current_story_id"}) IN
           St(d, [f EXCEPT !.step = row,
                           !.pc = IF LoopItemInProgress(row)
                                  THEN "f_selStory"
                                  ELSE IF RetriesExhausted(NewRetryCount(row.retry_count),
                                                           row.max_retries)
                                  THEN "f_stepFailed" ELSE "f_stepPending"])
      [] f.pc = "f_selStory" ->
           \* the story row exists: stories are never deleted by these operations
           St(d, [f EXCEPT !.story = StepSnapshot(d.stories[cur]),
                           !.pc = IF RetriesExhausted(d.stories[cur].retry_count + 1,
                                                      d.stories[cur].max_retries)
                                  THEN "f_storyFailed" ELSE "f_storyPending"])
      [] f.pc = "f_storyFailed" ->
           Goto(SetStory(d, f.story.id, [d.stories[f.story.id] EXCEPT
                    !.status = "failed", !.retry_count = newRetry, !.updated_at = SqlTime(t)]),
                f, "f_loopFailed")
      [] f.pc = "f_loopFailed" ->
           Goto(SetStep(d, f.sid, [d.steps[f.sid] EXCEPT
                    !.status = "failed", !.output = f.out, !.current_story_id = NoId,
                    !.updated_at = SqlTime(t)]),
                f, "f_loopRunFailed")
      [] f.pc = "f_loopRunFailed" ->
           Return(SetRunStatus(d, r, "failed"), f, FailRes(FALSE, TRUE))
      [] f.pc = "f_storyPending" ->
           Goto(SetStory(d, f.story.id, [d.stories[f.story.id] EXCEPT
                    !.status = "pending", !.retry_count = newRetry, !.updated_at = SqlTime(t)]),
                f, "f_loopPending")
      [] f.pc = "f_loopPending" ->
           Return(SetStep(d, f.sid, [d.steps[f.sid] EXCEPT
                      !.status = "pending", !.current_story_id = NoId,
                      !.updated_at = SqlTime(t)]),
                  f, FailRes(TRUE, FALSE))
      [] f.pc = "f_stepFailed" ->
           Goto(SetStep(d, f.sid, [d.steps[f.sid] EXCEPT
                    !.status = "failed", !.output = f.out, !.retry_count = newRetryCount,
                    !.updated_at = SqlTime(t)]),
                f, "f_runFailed")
      [] f.pc = "f_runFailed" ->
           Return(SetRunStatus(d, r, "failed"), f, FailRes(FALSE, TRUE))
      [] f.pc = "f_stepPending" ->
           Return(SetStep(d, f.sid, [d.steps[f.sid] EXCEPT
                      !.status = "pending", !.retry_count = newRetryCount,
                      !.updated_at = SqlTime(t)]),
                  f, FailRes(TRUE, FALSE))

-----------------------------------------------------------------------------
(* One statement of a call, and a call run to its return.                   *)

ReaperPcs  == {"cl_selSteps", "cl_step", "cl_failRun", "cl_selStories", "cl_story"}
ClaimPcs   == {"c_selStep", "c_runStatus", "c_selCtx", "c_nextStory", "c_loopDone",
               "c_updStory", "c_updLoopStep", "c_getStories", "c_persistCtx", "c_updSingle"}
CompletePcs == {"k_selStep", "k_runCheck", "k_selCtx", "k_updCtx", "k_storyDone",
                "k_clearCur", "k_selVerify", "k_verifyPending", "k_loopRunning",
                "k_selLoopRow", "k_stepDone"}
ParsePcs   == {"p_parse", "p_insert"}
VerifyPcs  == {"v_verifyWaiting", "v_selLastDone", "v_storyFailed", "v_loopFailed",
               "v_runFailed", "v_storyPending", "v_feedback", "v_loopPending",
               "v_clearFeedback"}
LoopPcs    == {"l_selPending", "l_loopPending", "l_loopDone", "l_selLoopCfg", "l_verifyDone"}
AdvancePcs == {"a_runStatus", "a_selNext", "a_promote", "a_complete"}

\* The rows a SELECT ... LIMIT 1 of the statement at f.pc may return (the
\* order among equal sort keys, or with no ORDER BY, is SQLite's choice).
Choices(d, f) ==
    LET r == f.step.run_id IN
    CASE f.pc = "c_selStep"     -> OrNone(PendingStepsOf(d, f.agent))
      [] f.pc = "c_nextStory"   -> OrNone(NextStories(d, r))
      [] f.pc = "a_selNext"     -> OrNone(LowestWaiting(d, r))
      [] f.pc = "k_selVerify"   -> OrNone(StepsNamed(d, r, f.step.loop_config.verifyStep))
      [] f.pc = "k_selLoopRow"  -> OrNone(RunningLoopSteps(d, r))
      [] f.pc = "v_selLastDone" -> OrNone(LastDoneStories(d, r))
      [] f.pc = "l_selPending"  -> OrNone(PendingStories(d, r))
      [] OTHER                  -> {NoId}

Stmt(d, f, t, ch) ==
    CASE f.pc \in ReaperPcs   -> cleanupAbandonedSteps(d, f, t, ch)
      [] f.pc \in ClaimPcs    -> claimStep(d, f, t, ch)
      [] f.pc \in CompletePcs -> completeStep(d, f, t, ch)
      [] f.pc \in ParsePcs    -> parseAndInsertStories(d, f, t, ch)
      [] f.pc \in VerifyPcs   -> handleVerifyEachCompletion(d, f, t, ch)
      [] f.pc \in LoopPcs     -> checkLoopContinuation(d, f, t, ch)
      [] f.pc \in AdvancePcs  -> advancePipeline(d, f, t, ch)
      [] OTHER                 -> failStep(d, f, t, ch)

Successors(d, f, t) == { Stmt(d, f, t, ch) : ch \in Choices(d, f) }

\* Every (store, returned frame) a call can end in when nothing else runs
\* between its statements.
RECURSIVE Outcomes(_, _, _)
Outcomes(d, f, t) ==
    IF f.pc = "done" THEN { St(d, f) }
    ELSE UNION { Outcomes(x.db, x.f, t) : x \in Successors(d, f, t) }

\* Every (store, frame) a call passes through, from its entry to its return,
\* when nothing else runs between its statements.
RECURSIVE Visited(_, _, _)
Visited(d, f, t) ==
    { St(d, f) } \cup
    (IF f.pc = "done" THEN {}
     ELSE UNION { Visited(x.db, x.f, t) : x \in Successors(d, f, t) })

\* The worker that receives a step from Claim owes one report on it.
Handed(h, f) ==
    IF f.pc = "done" /\ f.res.kind = "claim" /\ f.res.found
    THEN h (+) SetToBag({f.res.stepId}) ELSE h

Reported(h, s) == h (-) SetToBag({s})

-----------------------------------------------------------------------------
(* runWorkflow: the run and its steps are inserted in one transaction; the  *)
(* cron setup is awaited after the COMMIT.                                  *)

NewRunId(d) == Cardinality(RunIdsOf(d)) + 1

StepRow(r, wf, i, t) ==
    LET step == Workflows[wf][i] IN
    [ id |-> <<r, i - 1>>, run_id |-> r, step_id |-> step.id,
      agent_id |-> AgentId(wf, step.agent), step_index |-> i - 1,
      status |-> IF i - 1 = 0 THEN "pending" ELSE "waiting",
      output |-> NULL, retry_count |-> 0, max_retries |-> step.max_retries,
      type |-> step.type, loop_config |-> step.loop, current_story_id |-> NoId,
      updated_at |-> IsoTime(t) ]

runWorkflow(d, wf, t) ==
    LET r == NewRunId(d) IN
    Observable(
      [d EXCEPT !.runs = @ @@ (r :> [id |-> r, workflow_id |-> wf, status |-> "running",
                                      context |-> [task |-> "task"]]),
                !.steps = @ @@ [id \in { <<r, i - 1>> : i \in DOMAIN Workflows[wf] } |->
                                   StepRow(r, wf, id[2] + 1, t)]])

RunWorkflow ==
    /\ todo # << >>
    /\ starting = 0
    /\ db' = runWorkflow(db, Head(todo), now)
    /\ todo' = Tail(todo)
    /\ starting' = NewRunId(db)
    /\ UNCHANGED <<now, handed, procs, calls, rt, un, cr, dm>>

\* await ensureWorkflowCrons(workflow) returns, or throws and the run is
\* marked failed.
CronSetup ==
    /\ starting # 0
    /\ \E ok \in BOOLEAN :
         db' = IF ok THEN db ELSE SetRunStatus(db, starting, "failed")
    /\ starting' = 0
    /\ UNCHANGED <<now, todo, handed, procs, calls, rt, un, cr, dm>>

\* One staleness threshold (15 minutes) passes; runWorkflow does not take
\* that long to return.
Tick ==
    /\ now < MaxTime
    /\ starting = 0
    /\ now' = now + 1
    /\ UNCHANGED <<db, todo, starting, handed, procs, calls, rt, un, cr, dm>>

-----------------------------------------------------------------------------
(* The calls workers make (cli.ts: step claim / step complete / step fail). *)
(* A worker reports, with Complete or Fail and once, on a step that a Claim *)
(* call has handed to it; when a step is handed out again before the first  *)
(* worker has reported (after a sweep reset it, or to an overlapping        *)
(* claimer), two reports on it are owed.                                    *)

ReportsOf(d, s) ==
    Workflows[d.runs[d.steps[s].run_id].workflow_id][d.steps[s].step_index + 1].reports

StoriesAdded(o) == IF HasStoriesJson(o) THEN Len(StoriesJson(o).items) ELSE 0

CanReport(d, s, o) ==
    Cardinality(StoriesOfRun(d, d.steps[s].run_id)) + StoriesAdded(o) <= MaxStories

WithinBounds(d) ==
    /\ \A i \in StepIdsOf(d) : d.steps[i].retry_count <= MaxRetryCount
    /\ \A i \in StoryIdsOf(d) : d.stories[i].retry_count <= MaxRetryCount
    /\ \A r \in RunIdsOf(d) : Cardinality(StoriesOfRun(d, r)) <= MaxStories

Call(f, h) ==
    \E o \in Outcomes(db, f, now) :
        /\ WithinBounds(o.db)
        /\ db' = o.db
        /\ handed' = Handed(h, o.f)
        /\ UNCHANGED <<now, todo, starting, procs, calls, rt, un, cr, dm>>

Claim == \E a \in AllAgents : Call(ClaimFrame(a), handed)

Complete ==
    \E s \in BagToSet(handed) : \E o \in ReportsOf(db, s) :
        CanReport(db, s, o) /\ Call(CompleteFrame(s, o), Reported(handed, s))

Fail == \E s \in BagToSet(handed), e \in Errors : Call(FailFrame(s, e), Reported(handed, s))

Init ==
    /\ db = EmptyDb
    /\ now = 0
    /\ todo \in Scenarios
    /\ starting = 0
    /\ handed = EmptyBag
    /\ procs = << >>
    /\ calls = 0
    /\ rt = NoCall
    /\ un = NoCall /\ cr = NoCall /\ dm = NoCall

Next == RunWorkflow \/ CronSetup \/ Tick \/ Claim \/ Complete \/ Fail

Spec == Init /\ [][Next]_vars

-----------------------------------------------------------------------------
(* Overlapping calls.  Each `antfarm step ...` invocation is a process of   *)
(* its own; its statements autocommit one by one, and the statements of     *)
(* other processes may run between them.                                    *)

Procs == 1..NumProcs

ConcScenarios == { <<"patch">>, <<"audit">> }

Idle(p) == procs[p].op = "idle"

\* Process p executes the statement its frame f stands at.
Run(p, f, h) ==
    \E x \in Successors(db, f, now) :
        /\ WithinBounds(x.db)
        /\ db' = x.db
        /\ procs' = [procs EXCEPT ![p] = x.f]
        /\ handed' = h
        /\ UNCHANGED <<now, todo, starting, rt, un, cr, dm>>

\* Process p starts a call: the first statement of the handler runs.
Begin(p, f, h) ==
    /\ Idle(p)
    /\ calls < MaxCalls
    /\ calls' = calls + 1
    /\ Run(p, f, h)

BeginClaim(p) == \E a \in AllAgents : Begin(p, ClaimFrame(a), handed)

BeginComplete(p) ==
    \E s \in BagToSet(handed) : \E o \in ReportsOf(db, s) :
        CanReport(db, s, o) /\ Begin(p, CompleteFrame(s, o), Reported(handed, s))

BeginFail(p) ==
    \E s \in BagToSet(handed), e \in Errors : Begin(p, FailFrame(s, e), Reported(handed, s))

Statement(p) ==
    /\ ~Idle(p)
    /\ procs[p].pc # "done"
    /\ Run(p, procs[p], handed)
    /\ UNCHANGED calls

\* console.log(JSON.stringify(result)) and the process exits: the worker has
\* the answer.
Exit(p) ==
    /\ ~Idle(p)
    /\ procs[p].pc = "done"
    /\ handed' = Handed(handed, procs[p])
    /\ procs' = [procs EXCEPT ![p] = Frame0]
    /\ UNCHANGED <<db, now, todo, starting, calls, rt, un, cr, dm>>

ConcInit ==
    /\ db = EmptyDb
    /\ now = 0
    /\ todo \in ConcScenarios
    /\ starting = 0
    /\ handed = EmptyBag
    /\ procs = [p \in Procs |-> Frame0]
    /\ calls = 0
    /\ rt = NoCall
    /\ un = NoCall /\ cr = NoCall /\ dm = NoCall

ConcNext ==
    \/ RunWorkflow
    \/ CronSetup
    \/ Tick
    \/ \E p \in Procs : BeginClaim(p)
    \/ \E p \in Procs : BeginComplete(p)
    \/ \E p \in Procs : BeginFail(p)
    \/ \E p \in Procs : Statement(p)
    \/ \E p \in Procs : Exit(p)

ConcSpec == ConcInit /\ [][ConcNext]_vars

-----------------------------------------------------------------------------
(* Properties                                                               *)

RunOf(d, s)      == d.steps[s].run_id
RunStatus(d, s)  == d.runs[RunOf(d, s)].status
Returned(p, op)  == procs[p].op = op /\ procs[p].pc = "done"

\* A step of a Claim, Complete or Fail call: the clock, `workflow run` and
\* its cron setup stand still.
CallStep == now' = now /\ todo' = todo /\ starting' = starting

\* C1: once a run's status is 'failed' it stays 'failed', whatever Claim
\* (with its sweep), Complete and Fail calls follow or overlap.
C1_FailedStaysFailed ==
    [][CallStep =>
          \A r \in RunIdsOf(db) :
              db.runs[r].status = "failed" => db'.runs[r].status = "failed"]_vars

\* C2: in a failed run no step is promoted: a step that is 'waiting' while
\* its run is 'failed' is 'waiting' after every further call.
C2_WaitingStaysWaiting ==
    [][CallStep =>
          \A s \in StepIdsOf(db) :
              (RunStatus(db, s) = "failed" /\ db.steps[s].status = "waiting")
                  => db'.steps[s].status = "waiting"]_vars

\* C3: a Claim call answers found=true for a single-type step only when its
\* own pending -> running update changed the row; a caller whose update
\* affected zero rows is told 'no work'.
C3_ClaimExactlyOnce ==
    \A p \in DOMAIN procs :
        (Returned(p, "claim") /\ procs[p].res.found /\ procs[p].res.story = NoId)
            => procs[p].cas = "won"

\* C4: overlapping Claim calls against a pending loop step whose run has a
\* single story: a call is handed the story only when the story was 'pending'
\* when that call set it 'running' (one pending -> running transition and one
\* receiver per attempt).
C4_StoryClaimExactlyOnce ==
    \A p \in DOMAIN procs :
        ( /\ Returned(p, "claim") /\ procs[p].res.found /\ procs[p].res.story # NoId
          /\ Cardinality(StoriesOfRun(db, procs[p].res.runId)) = 1 )
            => procs[p].cas = "won"

\* C5: Claim never answers found=true with a step of a 'failed' run, and a
\* step that is 'pending' in a 'failed' run is still 'pending' after the call.
C5_NoClaimInFailedRun ==
    \A a \in AllAgents : \A o \in Outcomes(db, ClaimFrame(a), now) :
        /\ o.f.res.found =>
              /\ db.runs[o.f.res.runId].status # "failed"
              /\ o.db.runs[o.f.res.runId].status # "failed"
        /\ \A s \in StepIdsOf(db) :
              (RunStatus(db, s) = "failed" /\ db.steps[s].status = "pending")
                  => o.db.steps[s].status = "pending"

C5_Witness ==
    \E s \in StepIdsOf(db) :
        /\ RunStatus(db, s) = "failed"
        /\ db.steps[s].status = "pending"
        /\ \E o \in Outcomes(db, ClaimFrame(db.steps[s].agent_id), now) :
              ~o.f.res.found /\ o.db.steps[s].status = "pending"

\* C6: Complete on a step whose run is 'failed' answers advanced=false,
\* runCompleted=false and leaves the whole store (run status and context,
\* every step, every story) as it was.
C6_CompleteOnFailedRunIsNoOp ==
    \A s \in StepIdsOf(db) : \A out \in Outputs :
        RunStatus(db, s) = "failed" =>
            \A o \in Outcomes(db, CompleteFrame(s, out), now) :
                o.db = db /\ o.f.res = CompleteRes(FALSE, FALSE)

C6_Witness ==
    \E s \in BagToSet(handed) :
        /\ RunStatus(db, s) = "failed"
        /\ db.steps[s].status = "running"
        /\ \E o \in Outcomes(db, CompleteFrame(s, OutStories), now) :
              o.db = db /\ o.f.res = CompleteRes(FALSE, FALSE)

\* C7: once a run's status is 'completed' no call changes it.
C7_CompletedStaysCompleted ==
    [][CallStep =>
          \A r \in RunIdsOf(db) :
              db.runs[r].status = "completed" => db'.runs[r].status = "completed"]_vars

\* C8: a Complete or a Fail call on a step of a run that is 'failed' or
\* 'completed' changes nothing in the store.
C8_TerminalRunUntouched ==
    \A s \in BagToSet(handed) :
        RunStatus(db, s) \in {"failed", "completed"} =>
            /\ \A e \in Errors : \A o \in Outcomes(db, FailFrame(s, e), now) : o.db = db
            /\ \A out \in ReportsOf(db, s) :
                  \A o \in Outcomes(db, CompleteFrame(s, out), now) : o.db = db

\* C9: retry_count of a step or story never decreases.
C9_RetryMonotonic ==
    [][CallStep =>
          /\ \A i \in StepIdsOf(db) :
                i \in StepIdsOf(db') /\ db'.steps[i].retry_count >= db.steps[i].retry_count
          /\ \A i \in StoryIdsOf(db) :
                i \in StoryIdsOf(db')
                    /\ db'.stories[i].retry_count >= db.stories[i].retry_count]_vars

C9_Witness ==
    /\ \E i \in StepIdsOf(db) : db.steps[i].retry_count >= 2
    /\ \E i \in StoryIdsOf(db) : db.stories[i].retry_count >= 1

\* C10: a step or story is 'failed' if and only if its retry_count is
\* greater than its max_retries.
C10_FailedIffRetriesExceeded ==
    /\ \A i \in StepIdsOf(db) :
          db.steps[i].status = "failed" <=> db.steps[i].retry_count > db.steps[i].max_retries
    /\ \A i \in StoryIdsOf(db) :
          db.stories[i].status = "failed"
              <=> db.stories[i].retry_count > db.stories[i].max_retries

-----------------------------------------------------------------------------
(* Properties of the advancer, of retries and of run creation               *)

\* The calls workers may issue in the current state.
Issuable ==
    { ClaimFrame(a) : a \in AllAgents }
    \cup { CompleteFrame(s, o) : s \in BagToSet(handed), o \in Outputs }
    \cup { FailFrame(s, e) : s \in BagToSet(handed), e \in Errors }

\* The rows of steps that differ between two stores.
ChangedSteps(d, e) == { i \in StepIdsOf(d) : d.steps[i] # e.steps[i] }

\* C11: when the advancer promotes a step of a run that is not 'failed', the
\* step is 'waiting', no 'waiting' step of that run has a lower step_index,
\* and the promotion changes that one step row (to 'pending') and nothing else.
C11_PromotesLowestWaiting ==
    \A f \in Issuable : \A x \in Visited(db, f, now) :
        (x.f.pc = "a_promote" /\ x.db.runs[x.f.step.run_id].status # "failed") =>
            LET r == x.f.step.run_id
                y == Stmt(x.db, x.f, now, NoId)
            IN /\ x.f.next \in WaitingSteps(x.db, r)
               /\ \A j \in WaitingSteps(x.db, r) :
                     x.db.steps[x.f.next].step_index <= x.db.steps[j].step_index
               /\ ChangedSteps(x.db, y.db) = { x.f.next }
               /\ y.db.steps[x.f.next].status = "pending"
               /\ y.db.runs = x.db.runs /\ y.db.stories = x.db.stories
               /\ y.f.pc = "done"

\* A promotion with two steps waiting.
C11_Witness ==
    \E f \in Issuable : \E x \in Visited(db, f, now) :
        /\ x.f.pc = "a_promote"
        /\ Cardinality(WaitingSteps(x.db, x.f.step.run_id)) >= 2
        /\ Stmt(x.db, x.f, now, NoId).db.steps[x.f.next].status = "pending"

\* C12: a run is 'completed' if and only if every one of its steps is 'done'.
C12_CompletedIffAllDone ==
    \A r \in RunIdsOf(db) :
        db.runs[r].status = "completed"
            <=> \A i \in StepsOfRun(db, r) : db.steps[i].status = "done"

LoopSteps(d) == { i \in StepIdsOf(d) : d.steps[i].type = "loop" }

\* The verification step paired to loop step i is at work.
Verifying(d, i) ==
    \E v \in StepsNamed(d, d.steps[i].run_id, d.steps[i].loop_config.verifyStep) :
        d.steps[v].status \in {"pending", "running"}

\* C13: a loop step whose run has stories is 'done' if and only if every
\* story of the run is 'done' (the loop step may lag behind its stories only
\* while the paired verification step is pending or running); in particular
\* it is never 'done' while a story is 'pending', 'running' or 'failed'.
C13_LoopDoneIffStoriesDone ==
    \A i \in LoopSteps(db) :
        LET stories == StoriesOfRun(db, db.steps[i].run_id)
            allDone == \A j \in stories : db.stories[j].status = "done"
        IN stories # {} =>
              /\ db.steps[i].status = "done" => allDone
              /\ (allDone /\ ~Verifying(db, i)) => db.steps[i].status = "done"

\* C14: Fail on a single step of a running run, max_retries = N, writes
\* retry_count + 1; while that count is at most N the step becomes 'pending',
\* the run stays 'running' and the answer is retrying=true, runFailed=false;
\* when it exceeds N the step becomes 'failed' with the error text, the run
\* 'failed', and the answer is retrying=false, runFailed=true.  Nothing else
\* in the store changes.
C14_FailRetriesThenFails ==
    \A s \in BagToSet(handed) : \A e \in Errors :
        (db.steps[s].type = "single" /\ RunStatus(db, s) = "running") =>
            \A o \in Outcomes(db, FailFrame(s, e), now) :
                LET old   == db.steps[s]
                    new   == o.db.steps[s]
                    count == old.retry_count + 1
                IN /\ new.retry_count = count
                   /\ ChangedSteps(db, o.db) \subseteq {s}
                   /\ o.db.stories = db.stories
                   /\ count <= old.max_retries =>
                         /\ new.status = "pending" /\ new.output = old.output
                         /\ o.db.runs = db.runs
                         /\ o.f.res = FailRes(TRUE, FALSE)
                   /\ count > old.max_retries =>
                         /\ new.status = "failed" /\ new.output = e
                         /\ o.db.runs = [db.runs EXCEPT ![old.run_id].status = "failed"]
                         /\ o.f.res = FailRes(FALSE, TRUE)

\* A claimed single step that has used all its retries (the next Fail fails
\* the run), after a first Fail on it was retried.
C14_Witness ==
    \E s \in BagToSet(handed) :
        /\ db.steps[s].type = "single" /\ RunStatus(db, s) = "running"
        /\ db.steps[s].status = "running"
        /\ db.steps[s].max_retries >= 1
        /\ db.steps[s].retry_count = db.steps[s].max_retries
        /\ \E o \in Outcomes(db, FailFrame(s, "boom"), now) :
              o.f.res = FailRes(FALSE, TRUE) /\ o.db.runs[RunOf(db, s)].status = "failed"

\* The loop steps of the run of step s that name s as their verification step.
LoopsVerifiedBy(d, s) ==
    { i \in LoopSteps(d) :
        /\ d.steps[i].run_id = d.steps[s].run_id
        /\ d.steps[i].loop_config.verifyEach
        /\ d.steps[i].loop_config.verifyStep = d.steps[s].step_id }

\* The 'done' stories of run r with the latest updated_at.
MostRecentlyDone(d, r) ==
    { j \in StoriesOfRun(d, r) :
        /\ d.stories[j].status = "done"
        /\ \A k \in StoriesOfRun(d, r) :
              d.stories[k].status = "done"
                  => ~TextLt(d.stories[j].updated_at, d.stories[k].updated_at) }

\* C15: Complete with STATUS: retry on the claimed verification step of a
\* verify-each loop, in a running run with a completed story: the verification
\* step becomes 'waiting'; the most recently completed story has its
\* retry_count incremented; if the count is within max_retries the story and
\* the loop step are 'pending', the feedback is in the context and the next
\* Claim of the loop worker serves that story; otherwise the story, the loop
\* step and the run are 'failed'.
C15_VerifyRetry ==
    \A s \in BagToSet(handed) : \A l \in LoopsVerifiedBy(db, s) :
        LET r == RunOf(db, s) IN
        (db.runs[r].status = "running" /\ MostRecentlyDone(db, r) # {}) =>
            \A o \in Outcomes(db, CompleteFrame(s, OutRetry), now) :
                /\ o.db.steps[s].status = "waiting"
                /\ \E j \in MostRecentlyDone(db, r) :
                      LET count == db.stories[j].retry_count + 1 IN
                      /\ o.db.stories[j].retry_count = count
                      /\ count <= db.stories[j].max_retries =>
                            /\ o.db.stories[j].status = "pending"
                            /\ o.db.steps[l].status = "pending"
                            /\ o.db.runs[r].status = "running"
                            /\ CtxHas(o.db.runs[r].context, "verify_feedback")
                            /\ o.db.runs[r].context["verify_feedback"] = "tests fail"
                            /\ \A c \in Outcomes(o.db, ClaimFrame(db.steps[l].agent_id), now) :
                                  c.f.res.found /\ c.f.res.stepId = l /\ c.f.res.story = j
                      /\ count > db.stories[j].max_retries =>
                            /\ o.db.stories[j].status = "failed"
                            /\ o.db.steps[l].status = "failed"
                            /\ o.db.runs[r].status = "failed"

\* The steps that have been 'running' for longer than the staleness
\* threshold at time t (by the clock, whatever the text of the timestamp).
StaleRunning(d, t) ==
    { i \in StepIdsOf(d) :
        d.steps[i].status = "running" /\ d.steps[i].updated_at.t < t - ABANDONED_THRESHOLD_MS }

\* C16: when the sweep of a Claim call has run, every step that was 'running'
\* past the staleness threshold has been reset to 'pending' with retry_count
\* incremented or, if its retry_count was already at max_retries, has been
\* marked 'failed' together with its run; and when the call returns no step
\* is 'running' past the threshold.
C16_SweepRecoversStaleSteps ==
    \A a \in AllAgents : \A x \in Visited(db, ClaimFrame(a), now) :
        /\ x.f.pc = "c_selStep" =>
              \A i \in StaleRunning(db, now) :
                  LET old == db.steps[i]
                      new == x.db.steps[i]
                  IN /\ new.retry_count = old.retry_count + 1
                     /\ old.retry_count < old.max_retries => new.status = "pending"
                     /\ old.retry_count >= old.max_retries =>
                           new.status = "failed" /\ x.db.runs[old.run_id].status = "failed"
        /\ x.f.pc = "done" => StaleRunning(x.db, now) = {}

-----------------------------------------------------------------------------
\* resolveTemplate(template, context).  A text is a sequence of pieces: a
\* piece is literal text, text of the shape {{key}} (which the pattern of
\* resolveTemplate matches: word characters, dot-separated, between double
\* braces), the marker [missing: key], or the text a built-in function
\* converts to.  String.prototype.replace calls the replacer once per match,
\* left to right, and does not scan what the replacer returns.

Text(v)        == [kind |-> "text", v |-> v]
Placeholder(k) == [kind |-> "placeholder", v |-> k]
Missing(k)     == [kind |-> "missing", v |-> k]
Native(k)      == [kind |-> "native", v |-> k]

TemplateKeys == { "name", "Name", "task", "toString" }

\* "{{ name }}" has the braces but not the shape: blanks are not \w.
Pieces == { Text("Hello "), Text("{{ name }}") } \cup { Placeholder(k) : k \in TemplateKeys }

Templates == UNION { [1..n -> Pieces] : n \in 0..MaxTemplateLen }

\* Contexts as JSON.parse(run.context) returns them: objects with string
\* values under their own keys.
ContextKeys   == { "name", "Name", "task" }
ContextValues == { Text("x"), Placeholder("task") }
Contexts == UNION { [K -> ContextValues] : K \in SUBSET ContextKeys }

\* Members every object inherits from Object.prototype.
ObjectPrototype == { "constructor", "toString", "valueOf", "hasOwnProperty" }

\* key in context
In(c, k) == CtxHas(c, k) \/ k \in ObjectPrototype

\* context[key], converted to text by replace
Get(c, k) == IF CtxHas(c, k) THEN c[k] ELSE Native(k)

Matches(piece) == piece.kind = "placeholder"

\* The replacer callback of resolveTemplate.
Replacer(c, key) ==
    IF In(c, key) THEN Get(c, key)
    ELSE IF In(c, ToLowerCase(key)) THEN Get(c, ToLowerCase(key))
    ELSE Missing(key)

TemplateInit ==
    /\ db = EmptyDb /\ now = 0 /\ todo = << >> /\ starting = 0
    /\ handed = EmptyBag /\ procs = << >> /\ calls = 0 /\ un = NoCall /\ cr = NoCall /\ dm = NoCall
    /\ \E t \in Templates, c \in Contexts :
          rt = [pc |-> "replace", template |-> t, context |-> c, i |-> 1, out |-> << >>]

\* template.replace(...): the next piece is copied, or replaced if it matches.
Replace ==
    /\ rt.pc = "replace" /\ rt.i <= Len(rt.template)
    /\ LET piece == rt.template[rt.i] IN
       rt' = [rt EXCEPT !.i = @ + 1,
                        !.out = Append(@, IF Matches(piece) THEN Replacer(rt.context, piece.v)
                                          ELSE piece)]
    /\ UNCHANGED <<db, now, todo, starting, handed, procs, calls, un, cr, dm>>

ReturnResolved ==
    /\ rt.pc = "replace" /\ rt.i > Len(rt.template)
    /\ rt' = [rt EXCEPT !.pc = "done"]
    /\ UNCHANGED <<db, now, todo, starting, handed, procs, calls, un, cr, dm>>

TemplateNext == Replace \/ ReturnResolved

TemplateSpec == TemplateInit /\ [][TemplateNext]_vars

\* C17: resolveTemplate returns the template with every {{key}} replaced by
\* context[lowercase(key)] when the context has that entry and by the marker
\* [missing: key] otherwise; the other pieces are unchanged and replaced
\* values are not expanded again.
C17_ResolveTemplate ==
    rt.pc = "done" =>
        /\ Len(rt.out) = Len(rt.template)
        /\ \A i \in 1..Len(rt.template) :
              LET piece == rt.template[i]
                  lower == ToLowerCase(piece.v)
              IN rt.out[i] = IF piece.kind # "placeholder" THEN piece
                             ELSE IF lower \in DOMAIN rt.context THEN rt.context[lower]
                             ELSE Missing(piece.v)

-----------------------------------------------------------------------------
(* runWorkflow, insert by insert.  Between BEGIN and COMMIT the rows it has *)
(* inserted are held by its own connection: SQLite shows other connections  *)
(* the committed store only, and lets no other connection write once the    *)
(* transaction has written.  Any insert may fail; the catch block rolls     *)
(* back and rethrows.                                                       *)

NoRows == [runs |-> << >>, steps |-> << >>]

RunRow(r, wf) ==
    [id |-> r, workflow_id |-> wf, status |-> "running", context |-> [task |-> "task"]]

\* The store with inserted rows added.
Applied(d, rows) ==
    Observable([d EXCEPT !.runs = @ @@ rows.runs, !.steps = @ @@ rows.steps])

\* The transaction opened by db.exec("BEGIN") is open.
NoTransaction(c) == FALSE
InTransaction(c) == c.pc \in { "insertRun", "insertStep", "commit", "rollback" }

HoldsWriteLock(c) == InTransaction(c) /\ c.rows # NoRows

\* An INSERT of runWorkflow: into the transaction when one is open, into the
\* store otherwise.
Insert(c, rows) ==
    IF InTransaction(cr)
    THEN /\ cr' = [c EXCEPT !.rows = [runs |-> @.runs @@ rows.runs, steps |-> @.steps @@ rows.steps]]
         /\ db' = db
    ELSE /\ cr' = c
         /\ db' = Applied(db, rows)

CreateBegin ==
    /\ cr.pc \in { "none", "committed", "thrown" }
    /\ todo # << >>
    /\ cr' = [pc |-> "insertRun", wf |-> Head(todo), runId |-> NewRunId(db), i |-> 1,
              rows |-> NoRows]
    /\ todo' = Tail(todo)
    /\ UNCHANGED <<db, now, starting, handed, procs, calls, rt, un, dm>>

InsertRun ==
    /\ cr.pc = "insertRun"
    /\ \E ok \in BOOLEAN :
         IF ok THEN Insert([cr EXCEPT !.pc = "insertStep"],
                           [runs |-> cr.runId :> RunRow(cr.runId, cr.wf), steps |-> << >>])
         ELSE cr' = [cr EXCEPT !.pc = "rollback"] /\ db' = db
    /\ UNCHANGED <<now, todo, starting, handed, procs, calls, rt, un, dm>>

InsertStep ==
    /\ cr.pc = "insertStep"
    /\ cr.i <= Len(Workflows[cr.wf])
    /\ \E ok \in BOOLEAN :
         IF ok THEN Insert([cr EXCEPT !.i = @ + 1],
                           [runs |-> << >>,
                            steps |-> <<cr.runId, cr.i - 1>> :> StepRow(cr.runId, cr.wf, cr.i, now)])
         ELSE cr' = [cr EXCEPT !.pc = "rollback"] /\ db' = db
    /\ UNCHANGED <<now, todo, starting, handed, procs, calls, rt, un, dm>>

InsertedAll ==
    /\ cr.pc = "insertStep"
    /\ cr.i > Len(Workflows[cr.wf])
    /\ cr' = [cr EXCEPT !.pc = "commit"]
    /\ UNCHANGED <<db, now, todo, starting, handed, procs, calls, rt, un, dm>>

Commit ==
    /\ cr.pc = "commit"
    /\ db' = Applied(db, cr.rows)
    /\ cr' = [cr EXCEPT !.pc = "committed", !.rows = NoRows]
    /\ UNCHANGED <<now, todo, starting, handed, procs, calls, rt, un, dm>>

Rollback ==
    /\ cr.pc = "rollback"
    /\ cr' = [cr EXCEPT !.pc = "thrown", !.rows = NoRows]
    /\ UNCHANGED <<db, now, todo, starting, handed, procs, calls, rt, un, dm>>

\* A Claim of another process: it reads the committed store, and its writes
\* wait for (or fail on) the write lock of an open transaction.
ConcurrentClaim ==
    /\ calls < MaxCalls
    /\ \E a \in AllAgents : \E o \in Outcomes(db, ClaimFrame(a), now) :
         /\ HoldsWriteLock(cr) => o.db = db
         /\ db' = o.db
         /\ handed' = Handed(handed, o.f)
    /\ calls' = calls + 1
    /\ UNCHANGED <<now, todo, starting, procs, rt, un, cr, dm>>

CreateInit ==
    /\ db = EmptyDb /\ now = 0 /\ todo \in Scenarios /\ starting = 0
    /\ handed = EmptyBag /\ procs = << >> /\ calls = 0
    /\ rt = NoCall /\ un = NoCall /\ cr = NoCall /\ dm = NoCall

CreateNext ==
    CreateBegin \/ InsertRun \/ InsertStep \/ InsertedAll \/ Commit \/ Rollback \/ ConcurrentClaim

CreateSpec == CreateInit /\ [][CreateNext]_vars

\* A run as runWorkflow creates it: 'running', one step per workflow step,
\* the first 'pending', the others 'waiting', no retries counted.
Whole(d, r) ==
    { d.steps[i].step_index : i \in StepsOfRun(d, r) } =
        { k - 1 : k \in DOMAIN Workflows[d.runs[r].workflow_id] }

AsCreated(d, r) ==
    /\ d.runs[r].status = "running"
    /\ Whole(d, r)
    /\ \A i \in StepsOfRun(d, r) :
         /\ d.steps[i].status = IF d.steps[i].step_index = 0 THEN "pending" ELSE "waiting"
         /\ d.steps[i].retry_count = 0

\* C18: runWorkflow creates a run atomically: a run enters the store that
\* Claims read with status 'running' and all its steps at once, the first
\* 'pending', the others 'waiting', retry counts 0; no state of the store
\* holds a run with only part of its steps; when an insert has failed
\* nothing of the run is in the store.
C18_RunCreationAtomic ==
    [][ /\ \A r \in RunIdsOf(db') : Whole(db', r)
        /\ \A i \in StepIdsOf(db') : db'.steps[i].run_id \in RunIdsOf(db')
        /\ \A r \in RunIdsOf(db') \ RunIdsOf(db) : AsCreated(db', r)
        /\ cr'.pc \in { "rollback", "thrown" } =>
              /\ cr'.runId \notin RunIdsOf(db')
              /\ \A i \in StepIdsOf(db') : db'.steps[i].run_id # cr'.runId ]_vars

\* A creation that failed after the run and a step were inserted, next to a
\* committed run that a Claim has handed a step of.
C18_Witness ==
    /\ cr.pc = "thrown" /\ cr.i > 1
    /\ RunIdsOf(db) # {}
    /\ handed # EmptyBag

-----------------------------------------------------------------------------
(* Ordered advancement.                                                     *)

SingleOnly(d, r) == \A i \in StepsOfRun(d, r) : d.steps[i].type = "single"

Active(d, r) == { i \in StepsOfRun(d, r) : d.steps[i].status \in { "pending", "running" } }

\* C19: in a run whose steps are all of type single, at most one step is
\* 'pending' or 'running', and every step with a lower index than it is
\* 'done' (so it is the lowest-index step that is not 'done').
C19_OrderedAdvancement ==
    \A r \in RunIdsOf(db) :
        SingleOnly(db, r) =>
            /\ Cardinality(Active(db, r)) <= 1
            /\ \A i \in Active(db, r) : \A j \in StepsOfRun(db, r) :
                  db.steps[j].step_index < db.steps[i].step_index => db.steps[j].status = "done"

-----------------------------------------------------------------------------
(* uninstall.ts: uninstallWorkflow and uninstallAllWorkflows.  Every stage  *)
(* is a call the command waits for (awaited, or synchronous), so a stage    *)
(* starts, ends, and only then is the next one called; a stage that throws  *)
(* ends the command.  The log records the calls in the order they happen.   *)

UninstallIds == { "bugfix", "feature" }

\* config.agents.list, by the workflow ids its agent ids begin with, in the
\* order of first appearance.
AgentLists == { << >>, <<"bugfix">>, <<"feature">>, <<"bugfix", "feature">>, <<"feature", "bugfix">> }

Range(q) == { q[k] : k \in DOMAIN q }

StageCall(stage, wfs) == [stage |-> stage, wfs |-> wfs]

\* The calls of uninstallWorkflow, in program order.
StagesSwapped == << "crons", "kill", "cancel", "sessions", "config" >>
UninstallStages == << "crons", "cancel", "kill", "sessions", "config" >>

\* for (const wfId of workflowIds) { cancelActiveRuns(wfId); await killAgentProcesses(wfId); }
RECURSIVE PerWorkflow(_)
PerWorkflow(list) ==
    IF list = << >> THEN << >>
    ELSE << StageCall("cancel", {Head(list)}), StageCall("kill", {Head(list)}) >>
         \o PerWorkflow(Tail(list))

\* The calls a command makes, in program order.
StageCalls(fn, w, list) ==
    IF fn = "uninstallWorkflow"
    THEN [k \in DOMAIN UninstallStages |-> StageCall(UninstallStages[k], {w})]
    ELSE << StageCall("crons", UninstallIds) >> \o PerWorkflow(list)
         \o << StageCall("sessions", UninstallIds), StageCall("config", Range(list)) >>

\* removeAgentCrons(workflowId): the promise resolves when the workflow's
\* cron jobs have been removed.
removeAgentCrons(env, wfs) == [env EXCEPT !.crons = @ \ wfs]

\* deleteAgentCronJobs(prefix): nothing is deleted when the listing fails.
deleteAgentCronJobs(env, wfs, listed) == IF listed THEN [env EXCEPT !.crons = @ \ wfs] ELSE env

cancelActiveRuns(env, wfs) == [env EXCEPT !.active = @ \ wfs]

\* SIGTERM to the processes that hold files of the workflow's session dirs.
killAgentProcesses(env, wfs) == [env EXCEPT !.alive = @ \ (wfs \cap env.sessions)]

terminateAgentSessions(env, wfs) == [env EXCEPT !.sessions = @ \ wfs]

removeFromConfig(env, wfs) == [env EXCEPT !.list = SelectSeq(@, LAMBDA x : x \notin wfs)]

StageEffect(fn, c, env, listed) ==
    CASE c.stage = "crons"    -> IF fn = "uninstallWorkflow" THEN removeAgentCrons(env, c.wfs)
                                 ELSE deleteAgentCronJobs(env, c.wfs, listed)
      [] c.stage = "cancel"   -> cancelActiveRuns(env, c.wfs)
      [] c.stage = "kill"     -> killAgentProcesses(env, c.wfs)
      [] c.stage = "sessions" -> terminateAgentSessions(env, c.wfs)
      [] c.stage = "config"   -> removeFromConfig(env, c.wfs)

\* cancelActiveRuns catches every error; the other stages can reject.
CanThrow(c) == c.stage # "cancel"

UninstallInit ==
    /\ db = EmptyDb /\ now = 0 /\ todo = << >> /\ starting = 0
    /\ handed = EmptyBag /\ procs = << >> /\ calls = 0
    /\ rt = NoCall /\ cr = NoCall /\ dm = NoCall
    /\ \E fn \in { "uninstallWorkflow", "uninstallAllWorkflows" }, w \in UninstallIds,
          list \in AgentLists, crons, active, sessions \in SUBSET UninstallIds :
          \E alive \in SUBSET sessions :
            /\ fn = "uninstallAllWorkflows" => w = "bugfix"
            /\ un = [pc |-> "call", fn |-> fn, wf |-> w, k |-> 1,
                     calls |-> StageCalls(fn, w, list),
                     env |-> [crons |-> crons, active |-> active, alive |-> alive,
                              sessions |-> sessions, list |-> list],
                     log |-> << >>]

StageStart ==
    /\ un.pc = "call" /\ un.k <= Len(un.calls)
    /\ un' = [un EXCEPT !.pc = "await", !.log = Append(@, [ev |-> "start", call |-> un.calls[un.k]])]
    /\ UNCHANGED <<db, now, todo, starting, handed, procs, calls, rt, cr, dm>>

StageEnd ==
    /\ un.pc = "await"
    /\ \E listed \in BOOLEAN :
         un' = [un EXCEPT !.pc = "call", !.k = @ + 1,
                          !.env = StageEffect(un.fn, un.calls[un.k], @, listed),
                          !.log = Append(@, [ev |-> "end", call |-> un.calls[un.k]])]
    /\ UNCHANGED <<db, now, todo, starting, handed, procs, calls, rt, cr, dm>>

StageThrows ==
    /\ un.pc = "await" /\ CanThrow(un.calls[un.k])
    /\ un' = [un EXCEPT !.pc = "thrown", !.log = Append(@, [ev |-> "throw", call |-> un.calls[un.k]])]
    /\ UNCHANGED <<db, now, todo, starting, handed, procs, calls, rt, cr, dm>>

UninstallReturn ==
    /\ un.pc = "call" /\ un.k > Len(un.calls)
    /\ un' = [un EXCEPT !.pc = "done"]
    /\ UNCHANGED <<db, now, todo, starting, handed, procs, calls, rt, cr, dm>>

UninstallNext == StageStart \/ StageEnd \/ StageThrows \/ UninstallReturn

UninstallSpec == UninstallInit /\ [][UninstallNext]_vars

StageRank(stage) ==
    CASE stage = "crons" -> 1 [] stage = "cancel" -> 2 [] stage = "kill" -> 3
      [] stage = "sessions" -> 4 [] stage = "config" -> 5

\* C20: for each workflow, the uninstall stages happen in the order cron job
\* removal, cancellation of active runs, kill of agent processes, deletion
\* of session files, removal from the config: whatever a later stage does
\* for the workflow comes after everything an earlier stage does for it,
\* and no stage starts before the stage before it has ended.
C20_UninstallOrder ==
    un.pc # "none" =>
        /\ \A w \in UninstallIds : \A p, q \in DOMAIN un.log :
              ( /\ w \in un.log[p].call.wfs /\ w \in un.log[q].call.wfs
                /\ StageRank(un.log[p].call.stage) < StageRank(un.log[q].call.stage) ) => p < q
        /\ \A q \in DOMAIN un.log :
              un.log[q].ev = "start" /\ q > 1 => un.log[q - 1].ev = "end"

\* Both commands run to their end, uninstallAllWorkflows over two workflows.
C20_Witness ==
    /\ un.pc = "done"
    /\ un.fn = "uninstallAllWorkflows"
    /\ Len(un.calls) = 7
    /\ un.env.active = {} /\ un.env.list = << >>

-----------------------------------------------------------------------------
(* uninstall.ts, cancelActiveRuns(workflowId) on the store: for every       *)
(* 'running' run of the workflow, three UPDATE statements.                  *)

ForceUninstalled == "Workflow force-uninstalled"

ActiveRunsOf(d, w) ==
    { r \in RunIdsOf(d) : d.runs[r].workflow_id = w /\ d.runs[r].status = "running" }

\* UPDATE steps ... WHERE run_id = ? AND status IN ('running', 'pending', 'waiting')
CancelledStepsNotWaiting == { "running", "pending" }
CancelledSteps == { "running", "pending", "waiting" }

\* UPDATE stories ... WHERE run_id = ? AND status IN ('running', 'pending')
CancelledStories == { "running", "pending" }

cancelActiveRunsIn(d, w, t) ==
    LET R == ActiveRunsOf(d, w) IN
    Observable(
      [d EXCEPT
         !.steps = [i \in DOMAIN @ |->
                      IF @[i].run_id \in R /\ @[i].status \in CancelledSteps
                      THEN [@[i] EXCEPT !.status = "failed", !.output = ForceUninstalled,
                                        !.updated_at = SqlTime(t)]
                      ELSE @[i]],
         !.stories = [i \in DOMAIN @ |->
                      IF @[i].run_id \in R /\ @[i].status \in CancelledStories
                      THEN [@[i] EXCEPT !.status = "failed", !.updated_at = SqlTime(t)]
                      ELSE @[i]],
         !.runs = [r \in DOMAIN @ |->
                      IF r \in R THEN [@[r] EXCEPT !.status = "failed"] ELSE @[r]]])

\* `antfarm workflow uninstall` reaches cancelActiveRuns while workers call.
CancelActiveRuns ==
    /\ \E w \in WorkflowIds : db' = cancelActiveRunsIn(db, w, now)
    /\ db' # db
    /\ UNCHANGED <<now, todo, starting, handed, procs, calls, rt, un, cr, dm>>

\* Runs with stories, and runs of two workflows side by side.
CancelScenarios == { <<"feature">>, <<"audit">>, <<"patch", "bugfix">> }

CancelInit ==
    /\ db = EmptyDb /\ now = 0 /\ todo \in CancelScenarios /\ starting = 0
    /\ handed = EmptyBag /\ procs = << >> /\ calls = 0
    /\ rt = NoCall /\ un = NoCall /\ cr = NoCall /\ dm = NoCall

CancelNext == RunWorkflow \/ CronSetup \/ Claim \/ Complete \/ Fail \/ CancelActiveRuns

CancelSpec == CancelInit /\ [][CancelNext]_vars

-----------------------------------------------------------------------------
(* uninstall.ts, terminateAgentSessions(workflowId) on the agents directory. *)
(* A name is the sequence of its parts between hyphens: workflow id         *)
(* <<"bug", "fix">> is "bug-fix".  An agent's directory is named            *)
(* <workflow id>-<agent name>.                                              *)

SessionWorkflows == { <<"bug">>, <<"bug", "fix">>, <<"bugfix">>, <<"feature">> }

AgentDir(wf, agent) == [wf |-> wf, agent |-> agent]

AgentDirs ==
    { AgentDir(wf, <<"dev">>) : wf \in SessionWorkflows } \cup { AgentDir(<<"bug">>, <<"qa">>) }

\* entry.name
DirName(dir) == dir.wf \o dir.agent

\* const prefix = `${workflowId}-`; entry.name.startsWith(prefix)
StartsWithPrefix(name, workflowId) ==
    /\ Len(name) > Len(workflowId)
    /\ SubSeq(name, 1, Len(workflowId)) = workflowId

SessionInit ==
    /\ db = EmptyDb /\ now = 0 /\ todo = << >> /\ starting = 0
    /\ handed = EmptyBag /\ procs = << >> /\ calls = 0
    /\ rt = NoCall /\ cr = NoCall /\ dm = NoCall
    /\ \E w \in SessionWorkflows, present \in SUBSET AgentDirs :
         \E sessions \in SUBSET present :
            un = [pc |-> "entries", workflowId |-> w, entries |-> present,
                  before |-> sessions, sessions |-> sessions]

\* for (const entry of entries): one agent directory, in readdir's order.
VisitEntry ==
    /\ un.pc = "entries"
    /\ \E dir \in un.entries :
         un' = [un EXCEPT !.entries = @ \ {dir},
                          !.sessions = IF StartsWithPrefix(DirName(dir), un.workflowId)
                                       THEN @ \ {dir} ELSE @]
    /\ UNCHANGED <<db, now, todo, starting, handed, procs, calls, rt, cr, dm>>

SessionsReturn ==
    /\ un.pc = "entries" /\ un.entries = {}
    /\ un' = [un EXCEPT !.pc = "terminated"]
    /\ UNCHANGED <<db, now, todo, starting, handed, procs, calls, rt, cr, dm>>

SessionNext == VisitEntry \/ SessionsReturn

SessionSpec == SessionInit /\ [][SessionNext]_vars

\* C22: when terminateAgentSessions(W) has returned, no agent of workflow W
\* has a session directory, and every agent of another workflow that had a
\* session directory still has it, also when the other workflow's id
\* extends W's id.
C22_SessionsScopedToWorkflow ==
    un.pc = "terminated" =>
        \A dir \in AgentDirs :
            /\ dir.wf = un.workflowId => dir \notin un.sessions
            /\ dir.wf # un.workflowId => (dir \in un.sessions <=> dir \in un.before)

-----------------------------------------------------------------------------
(* Malformed STORIES_JSON.                                                  *)

MalformedOutputs == { OutDupStory, OutBadJson, OutNotArray, OutTooMany, OutMissingField }

\* C23: Complete with a malformed STORIES_JSON block, on a claimed step of a
\* run that is not 'failed', raises an error, inserts no story row and
\* changes no step; only the run's context may have changed.
C23_MalformedStoriesAllOrNothing ==
    \A s \in BagToSet(handed) : \A o \in MalformedOutputs :
        RunStatus(db, s) # "failed" =>
            \A x \in Outcomes(db, CompleteFrame(s, o), now) :
                /\ x.f.res.kind = "error"
                /\ x.db.stories = db.stories
                /\ x.db.steps = db.steps
                /\ \A r \in RunIdsOf(db) : x.db.runs[r].status = db.runs[r].status

-----------------------------------------------------------------------------
(* Termination.  Workers keep polling, a worker that was handed a step      *)
(* reports on it with a well-formed output or an error, or disappears, and  *)
(* time passes.  A worker disappears only while the clock of the model can  *)
(* still carry its step past the staleness threshold.                       *)

LiveComplete ==
    \E s \in BagToSet(handed) : \E o \in ReportsOf(db, s) \ MalformedOutputs :
        CanReport(db, s, o) /\ Call(CompleteFrame(s, o), Reported(handed, s))

\* The worker never reports: its step stays 'running' until a sweep finds it.
Vanish ==
    /\ now < MaxTime
    /\ \E s \in BagToSet(handed) : handed' = Reported(handed, s)
    /\ UNCHANGED <<db, now, todo, starting, procs, calls, rt, un, cr, dm>>

Report == LiveComplete \/ Fail \/ Vanish

LiveNext == RunWorkflow \/ CronSetup \/ Tick \/ Claim \/ Report

\* 'review' is 'feature' with a plan of one story.
LiveScenarios == { <<"bugfix">>, <<"review">>, <<"audit">>, <<"patch", "patch">> }

LiveInit ==
    /\ db = EmptyDb /\ now = 0 /\ todo \in LiveScenarios /\ starting = 0
    /\ handed = EmptyBag /\ procs = << >> /\ calls = 0
    /\ rt = NoCall /\ un = NoCall /\ cr = NoCall /\ dm = NoCall

LiveSpec ==
    /\ LiveInit /\ [][LiveNext]_vars
    /\ WF_vars(RunWorkflow) /\ WF_vars(CronSetup) /\ WF_vars(Tick)
    /\ WF_vars(Claim) /\ WF_vars(Report)

RunIds == 1..2

-----------------------------------------------------------------------------
(* The sweep against Fail.                                                  *)

\* The steps the sweep of a Claim at time t picks up.
SweptSteps(d, t) == { s.id : s \in AbandonedSteps(d, IsoTime(t - ABANDONED_THRESHOLD_MS)) }

\* C25: the sweep leaves a stale single step 'pending' exactly when a Fail
\* call on that step, in the same store, would leave it 'pending', and leaves
\* it 'failed' with its run 'failed' exactly when the Fail call would.
C25_ReaperDecidesAsFail ==
    \A s \in SweptSteps(db, now) :
        db.steps[s].type = "single" =>
            \A a \in AllAgents : \A x \in Visited(db, ClaimFrame(a), now) :
                x.f.pc = "c_selStep" =>
                    \A e \in Errors : \A y \in Outcomes(db, FailFrame(s, e), now) :
                        /\ x.db.steps[s].status = y.db.steps[s].status
                        /\ x.db.steps[s].status = "failed" =>
                              x.db.runs[db.steps[s].run_id].status = "failed"

\* Rows set 'running' less than the staleness threshold ago.
FreshSteps(d, t) ==
    { i \in StepIdsOf(d) :
        d.steps[i].status = "running" /\ d.steps[i].updated_at.t > t - ABANDONED_THRESHOLD_MS }
FreshStories(d, t) ==
    { i \in StoryIdsOf(d) :
        d.stories[i].status = "running" /\ d.stories[i].updated_at.t > t - ABANDONED_THRESHOLD_MS }

\* C26: the sweep of a Claim, whichever agent calls, leaves alone every
\* 'running' step and story that was last updated less than the staleness
\* threshold ago.
C26_SweepSparesFreshRows ==
    \A a \in AllAgents : \A x \in Visited(db, ClaimFrame(a), now) :
        x.f.pc = "c_selStep" =>
            /\ \A i \in FreshSteps(db, now) : x.db.steps[i] = db.steps[i]
            /\ \A i \in FreshStories(db, now) : x.db.stories[i] = db.stories[i]

-----------------------------------------------------------------------------
(* Loop steps: Fail, Complete and continuation.                             *)

ChangedStories(d, e) == { i \in StoryIdsOf(d) : d.stories[i] # e.stories[i] }

\* C27: Fail on a claimed loop step of a running run, with a story in
\* progress, adds one to the story's retry_count and leaves the step's count
\* alone; when the story's count exceeds its max_retries the story, the step
\* and the run become 'failed'; otherwise the story and the step become
\* 'pending' and the run stays 'running'; current_story_id is cleared, and
\* no other step or story changes.
C27_FailRetriesTheStory ==
    \A s \in BagToSet(handed) : \A e \in Errors :
        (/\ db.steps[s].type = "loop" /\ db.steps[s].current_story_id # NoId
         /\ RunStatus(db, s) = "running") =>
            \A x \in Outcomes(db, FailFrame(s, e), now) :
                LET cur   == db.steps[s].current_story_id
                    old   == db.stories[cur]
                    new   == x.db.stories[cur]
                    step  == x.db.steps[s]
                    count == old.retry_count + 1
                IN /\ new.retry_count = count
                   /\ step.retry_count = db.steps[s].retry_count
                   /\ step.current_story_id = NoId
                   /\ ChangedSteps(db, x.db) \subseteq {s}
                   /\ ChangedStories(db, x.db) \subseteq {cur}
                   /\ count > old.max_retries =>
                         /\ new.status = "failed" /\ step.status = "failed"
                         /\ x.db.runs[db.steps[s].run_id].status = "failed"
                         /\ x.f.res = FailRes(FALSE, TRUE)
                   /\ count <= old.max_retries =>
                         /\ new.status = "pending" /\ step.status = "pending"
                         /\ x.db.runs = db.runs
                         /\ x.f.res = FailRes(TRUE, FALSE)

\* A claimed loop step whose story in progress has used up its retries: the
\* next Fail on it fails the run.
C27_Witness ==
    \E s \in BagToSet(handed) :
        /\ db.steps[s].type = "loop" /\ db.steps[s].current_story_id # NoId
        /\ RunStatus(db, s) = "running"
        /\ db.stories[db.steps[s].current_story_id].retry_count =
              db.stories[db.steps[s].current_story_id].max_retries

WellFormedOutputs == Outputs \ MalformedOutputs

\* The verification step paired with loop step s, if the run has one.
PairedVerifySteps(d, s) ==
    IF d.steps[s].loop_config.verifyEach
    THEN StepsNamed(d, d.steps[s].run_id, d.steps[s].loop_config.verifyStep)
    ELSE {}

\* C28: Complete on a claimed loop step with a story in progress, verifyEach
\* on and a paired verification step, in a run that is not 'failed': the
\* story becomes 'done' with the reported output, current_story_id is
\* cleared, the verification step becomes 'pending', the loop step is
\* 'running', no other step and no run status changes, and the result is
\* advanced = false, runCompleted = false.
C28_LoopItemHandedToVerify ==
    \A s \in BagToSet(handed) : \A o \in WellFormedOutputs :
        (/\ db.steps[s].type = "loop" /\ db.steps[s].current_story_id # NoId
         /\ PairedVerifySteps(db, s) # {}
         /\ RunStatus(db, s) # "failed"
         /\ CanReport(db, s, o)) =>
            \A x \in Outcomes(db, CompleteFrame(s, o), now) :
                LET cur == db.steps[s].current_story_id IN
                /\ x.db.stories[cur].status = "done"
                /\ x.db.stories[cur].output = o
                /\ x.db.steps[s].current_story_id = NoId
                /\ x.db.steps[s].status = "running"
                /\ \E v \in PairedVerifySteps(db, s) :
                      /\ x.db.steps[v].status = "pending"
                      /\ ChangedSteps(db, x.db) \subseteq {s, v}
                /\ \A r \in RunIdsOf(db) : x.db.runs[r].status = db.runs[r].status
                /\ x.f.res = CompleteRes(FALSE, FALSE)

\* A loop step under per-item verification is claimed with a story in
\* progress while its verification step waits.
C28_Witness ==
    \E s \in BagToSet(handed) :
        /\ db.steps[s].type = "loop" /\ db.steps[s].current_story_id # NoId
        /\ RunStatus(db, s) = "running"
        /\ \E v \in PairedVerifySteps(db, s) : db.steps[v].status = "waiting"

\* The states a Complete call issued in the current state passes through.
CompleteStates ==
    UNION { Visited(db, CompleteFrame(s, o), now) :
              s \in BagToSet(handed), o \in WellFormedOutputs }

\* The verification step passes: handleVerifyEachCompletion is entered with
\* a status other than 'retry'.
VerifyPasses(x) == x.f.pc = "v_verifyWaiting" /\ VerifyStatus(x.f.ctx) # "retry"

\* checkLoopContinuation is entered.
Continues(x) == x.f.pc = "l_selPending"

-----------------------------------------------------------------------------
(* current_story_id.                                                        *)

\* C30: a step's current_story_id is set only on a loop step that is
\* 'running' and whose story is 'running'; it is null on every single step
\* and on every step that is 'waiting', 'pending', 'done' or 'failed'.
C30_CurrentStoryOnlyInProgress ==
    \A s \in StepIdsOf(db) :
        db.steps[s].current_story_id # NoId =>
            /\ db.steps[s].type = "loop"
            /\ db.steps[s].status = "running"
            /\ db.stories[db.steps[s].current_story_id].status = "running"

-----------------------------------------------------------------------------
(* Stories of a run.                                                        *)

\* A worker replies to the step it was handed with any well-formed text,
\* with or without a STORIES_JSON block, whatever its step is.
CompleteAny ==
    \E s \in BagToSet(handed) : \E o \in WellFormedOutputs :
        CanReport(db, s, o) /\ Call(CompleteFrame(s, o), Reported(handed, s))

StoryScenarios == { <<"audit">>, <<"feature">>, <<"bugfix">> }

StoryInit ==
    /\ db = EmptyDb /\ now = 0 /\ todo \in StoryScenarios /\ starting = 0
    /\ handed = EmptyBag /\ procs = << >> /\ calls = 0
    /\ rt = NoCall /\ un = NoCall /\ cr = NoCall /\ dm = NoCall

StoryNext == RunWorkflow \/ CronSetup \/ Claim \/ CompleteAny \/ Fail

StorySpec == StoryInit /\ [][StoryNext]_vars

\* C31: no two story rows of a run carry the same story_id.
C31_StoryIdUniquePerRun ==
    \A i, j \in StoryIdsOf(db) :
        (db.stories[i].run_id = db.stories[j].run_id
           /\ db.stories[i].story_id = db.stories[j].story_id) => i = j

-----------------------------------------------------------------------------
(* antfarm workflow resume <run-id>.                                        *)

\* ... FROM steps WHERE run_id = ? AND status = 'failed' ORDER BY step_index ASC LIMIT 1
FirstFailedSteps(d, r) ==
    LET failed == { i \in StepsOfRun(d, r) : d.steps[i].status = "failed" }
    IN { i \in failed : \A j \in failed : d.steps[i].step_index <= d.steps[j].step_index }

FailedStories(d, r) == { i \in StoriesOfRun(d, r) : d.stories[i].status = "failed" }

\* ... FROM stories WHERE run_id = ? AND status = 'failed' ORDER BY story_index ASC LIMIT 1
FirstFailedStories(d, r) ==
    { i \in FailedStories(d, r) :
        \A j \in FailedStories(d, r) : d.stories[i].story_index <= d.stories[j].story_index }

\* ... WHERE run_id = ? AND type = 'loop' AND status IN ('running', 'failed') LIMIT 1
ActiveLoopSteps(d, r) ==
    { i \in StepsOfRun(d, r) :
        d.steps[i].type = "loop" /\ d.steps[i].status \in {"running", "failed"} }

\* if (lc.verifyEach && lc.verifyStep === failedStep.step_id)
IsVerifyOf(loopRow, failedRow) ==
    loopRow.loop_config.verifyEach /\ loopRow.loop_config.verifyStep = failedRow.step_id

\* process.exit(code), or the return from main (code 0), with the store as
\* the command leaves it.
ProcessExit(d, code) == [db |-> d, exit |-> code]

\* The command from the point where the failed step fs, the failed story
\* (or none) and the loop step (or none) have been read.
resumeFrom(d, r, fs, story, loop, t) ==
    LET d1 == IF d.steps[fs].type = "loop" /\ story # NoId
              THEN SetStory(d, story, [d.stories[story] EXCEPT
                       !.status = "pending", !.updated_at = SqlTime(t)])
              ELSE d
    IN IF loop # NoId /\ IsVerifyOf(d1.steps[loop], d1.steps[fs])
       THEN LET d2 == SetStep(d1, loop, [d1.steps[loop] EXCEPT
                          !.status = "pending", !.current_story_id = NoId,
                          !.updated_at = SqlTime(t)])
                d3 == SetStep(d2, fs, [d2.steps[fs] EXCEPT
                          !.status = "waiting", !.current_story_id = NoId,
                          !.updated_at = SqlTime(t)])
                d4 == [d3 EXCEPT !.stories = [k \in DOMAIN @ |->
                          IF k \in FailedStories(d3, r)
                          THEN [@[k] EXCEPT !.status = "pending", !.updated_at = SqlTime(t)]
                          ELSE @[k]]]
            IN ProcessExit(SetRunStatus(d4, r, "running"), 0)
       ELSE ProcessExit(SetRunStatus(
                     SetStep(d1, fs, [d1.steps[fs] EXCEPT
                         !.status = "pending", !.current_story_id = NoId,
                         !.updated_at = SqlTime(t)]),
                     r, "running"), 0)

\* if (action === "resume"): the outcomes of the command for run r.
resume(d, r, t) ==
    IF d.runs[r].status # "failed" THEN { ProcessExit(d, 1) }
    ELSE IF FirstFailedSteps(d, r) = {} THEN { ProcessExit(d, 1) }
    ELSE { resumeFrom(d, r, fs, story, loop, t) :
             fs \in FirstFailedSteps(d, r),
             story \in OrNone(FirstFailedStories(d, r)),
             loop \in OrNone(ActiveLoopSteps(d, r)) }

Resume ==
    /\ \E r \in RunIdsOf(db) : \E x \in resume(db, r, now) : db' = x.db
    /\ UNCHANGED <<now, todo, starting, handed, procs, calls, rt, un, cr, dm>>

ResumeScenarios == { <<"feature">>, <<"audit">>, <<"bugfix">> }

ResumeInit ==
    /\ db = EmptyDb /\ now = 0 /\ todo \in ResumeScenarios /\ starting = 0
    /\ handed = EmptyBag /\ procs = << >> /\ calls = 0
    /\ rt = NoCall /\ un = NoCall /\ cr = NoCall /\ dm = NoCall

ResumeNext == RunWorkflow \/ CronSetup \/ Claim \/ Complete \/ Fail \/ Resume

ResumeSpec == ResumeInit /\ [][ResumeNext]_vars

DoneSteps(d, r) == { i \in StepsOfRun(d, r) : d.steps[i].status = "done" }

\* C32: resume of a 'failed' run with a failed step exits without error,
\* sets the run 'running' and its lowest failed step 'pending' with
\* current_story_id cleared, resets a failed story of a failed loop step to
\* 'pending' and leaves every 'done' step as it was; any other resume
\* changes nothing and exits with an error.
C32_ResumeReopensFailedStep ==
    \A r \in RunIdsOf(db) : \A x \in resume(db, r, now) :
        IF db.runs[r].status = "failed" /\ FirstFailedSteps(db, r) # {}
        THEN /\ x.exit = 0
             /\ x.db.runs[r].status = "running"
             /\ \E fs \in FirstFailedSteps(db, r) :
                   /\ x.db.steps[fs].status = "pending"
                   /\ x.db.steps[fs].current_story_id = NoId
                   /\ (db.steps[fs].type = "loop" /\ FailedStories(db, r) # {}) =>
                         \E k \in FailedStories(db, r) : x.db.stories[k].status = "pending"
             /\ \A i \in DoneSteps(db, r) : x.db.steps[i] = db.steps[i]
        ELSE x.db = db /\ x.exit # 0

-----------------------------------------------------------------------------
(* The spawner daemon.  pollCycle runs on a 30-second timer and awaits each  *)
(* session it spawns (the request returns when the session has run), so a    *)
(* later cycle starts while an earlier one is still in its loop.  Between    *)
(* two awaits a cycle runs without interruption.                             *)

\* Poll cycles in flight at once.
NumCycles == 2

\* const SESSION_TTL_MS = 20 * 60 * 1000, in thirds of a tick of 15 minutes.
SESSION_TTL_MS == 4

IdleCycle == [pc |-> "idle", pending |-> {}, step |-> NoId, claimed |-> FALSE,
              spawnedAt |-> 0, wasPending |-> FALSE, wasTracked |-> FALSE]

\* activeSessions (step id -> spawnedAt) and the poll cycles.
Daemon0 == [activeSessions |-> << >>, cycles |-> [c \in 1..NumCycles |-> IdleCycle]]

\* cleanupAbandonedSteps of the daemon: the same statements as the sweep of
\* claimStep.
DaemonCleanup(d, t) ==
    { x.db : x \in { y \in Visited(d, ClaimFrame(CHOOSE a \in AllAgents : TRUE), t) :
                      y.f.pc = "c_selStep" } }

\* if (now - info.spawnedAt > SESSION_TTL_MS)
Stale(spawnedAt, t) == 3 * (t - spawnedAt) > SESSION_TTL_MS

\* expireStaleTracking: the stale entries are deleted.
expireStaleTracking(active, t) ==
    [ s \in { k \in DOMAIN active : ~Stale(active[k], t) } |-> active[s] ]

\* findPendingSteps: ... WHERE s.status = 'pending' AND r.status = 'running'
findPendingSteps(d) ==
    { s \in StepIdsOf(d) :
        d.steps[s].status = "pending" /\ d.runs[d.steps[s].run_id].status = "running" }

\* for (const step of pending): the loop of cycle c from its current
\* position to its next await (a spawn) or to its end.  The order of the
\* rows is not fixed: a tracked row the loop has not yet passed stays in
\* `pending`.
Loop(d, c, active, pending, t) ==
    LET untracked == pending \ DOMAIN active IN
    IF untracked = {}
    THEN { [dm EXCEPT !.activeSessions = active, !.cycles[c] = IdleCycle] }
    ELSE { [dm EXCEPT !.activeSessions = active @@ (s :> t),
                      !.cycles[c] = [pc |-> "await", pending |-> (untracked \ {s}) \cup later, step |-> s,
                                     claimed |-> FALSE, spawnedAt |-> t,
                                     wasPending |-> s \in findPendingSteps(d),
                                     wasTracked |-> s \in DOMAIN active]] :
             s \in untracked,
             later \in SUBSET (pending \cap DOMAIN active) }

\* pollCycle up to its first await.
PollCycle(c) ==
    /\ dm.cycles[c].pc = "idle"
    /\ \E d \in DaemonCleanup(db, now) :
          /\ WithinBounds(d)
          /\ db' = d
          /\ dm' \in Loop(d, c, expireStaleTracking(dm.activeSessions, now),
                           findPendingSteps(d), now)
    /\ UNCHANGED <<now, todo, starting, handed, procs, calls, rt, un, cr>>

\* The spawned session follows its prompt: `step claim <agent>` for the
\* agent of the step it was spawned for.
SessionClaim(c) ==
    /\ dm.cycles[c].pc = "await" /\ ~dm.cycles[c].claimed
    /\ \E o \in Outcomes(db, ClaimFrame(db.steps[dm.cycles[c].step].agent_id), now) :
          /\ WithinBounds(o.db)
          /\ db' = o.db
          /\ handed' = Handed(handed, o.f)
    /\ dm' = [dm EXCEPT !.cycles[c].claimed = TRUE]
    /\ UNCHANGED <<now, todo, starting, procs, calls, rt, un, cr>>

\* await spawnSession(step) returns: the request was rejected
\* (activeSessions.delete) or threw before a session ran, or the session has
\* run; the loop goes on.
SpawnReturns(c) ==
    /\ dm.cycles[c].pc = "await"
    /\ \E rejected \in BOOLEAN :
          /\ rejected => ~dm.cycles[c].claimed
          /\ LET active == IF rejected
                           THEN [ s \in DOMAIN dm.activeSessions \ {dm.cycles[c].step}
                                    |-> dm.activeSessions[s] ]
                           ELSE dm.activeSessions
             IN dm' \in Loop(db, c, active, dm.cycles[c].pending, now)
    /\ UNCHANGED <<db, now, todo, starting, handed, procs, calls, rt, un, cr>>

\* `workflow run --scheduler daemon`: no cron setup is awaited.  The runs of
\* a behaviour are started before its clock moves.
RunWorkflowDaemon ==
    /\ todo # << >>
    /\ now = 0
    /\ db' = runWorkflow(db, Head(todo), now)
    /\ todo' = Tail(todo)
    /\ UNCHANGED <<now, starting, handed, procs, calls, rt, un, cr, dm>>

DaemonScenarios == { <<"patch", "patch">> }

DaemonInit ==
    /\ db = EmptyDb /\ now = 0 /\ todo \in DaemonScenarios /\ starting = 0
    /\ handed = EmptyBag /\ procs = << >> /\ calls = 0
    /\ rt = NoCall /\ un = NoCall /\ cr = NoCall /\ dm = Daemon0

DaemonNext ==
    \/ RunWorkflowDaemon \/ Tick \/ Complete
    \/ \E c \in 1..NumCycles : PollCycle(c) \/ SessionClaim(c) \/ SpawnReturns(c)

DaemonSpec == DaemonInit /\ [][DaemonNext]_vars

\* C33: a session is spawned for a step only when the step is 'pending' in
\* a 'running' run and activeSessions has no entry for it, and of two
\* sessions spawned for the same step and awaited at once the second was
\* spawned after the entry of the first had expired.
C33_NoDoubleSpawn ==
    /\ \A c \in 1..NumCycles :
          dm.cycles[c].pc = "await" =>
              dm.cycles[c].wasPending /\ ~dm.cycles[c].wasTracked
    /\ \A c, e \in 1..NumCycles :
          (c # e /\ dm.cycles[c].pc = "await" /\ dm.cycles[e].pc = "await")
              => \/ dm.cycles[c].step # dm.cycles[e].step
                 \/ Stale(dm.cycles[c].spawnedAt, dm.cycles[e].spawnedAt)
                 \/ Stale(dm.cycles[e].spawnedAt, dm.cycles[c].spawnedAt)

-----------------------------------------------------------------------------
(* Properties of the pipeline as a whole.                                   *)

\* Steps a Claim of agent a can be handed in store d: 'pending', in a
\* 'running' run, and with a 'pending' story to work on if it is a loop step.
Claimable(d, a) ==
    { s \in PendingStepsOf(d, a) :
        /\ d.runs[d.steps[s].run_id].status = "running"
        /\ d.steps[s].type = "loop" => PendingStories(d, d.steps[s].run_id) # {} }

\* C34: when, after the sweep of a Claim, the agent has a claimable step in
\* a 'running' run, the Claim returns a step (found = true), whatever other
\* 'pending' steps the agent has in 'failed' runs.
C34_NoStarvationAcrossRuns ==
    \A a \in AllAgents : \A x \in Visited(db, ClaimFrame(a), now) :
        (x.f.pc = "c_selStep" /\ Claimable(x.db, a) # {}) =>
            \A o \in Outcomes(x.db, x.f, now) :
                o.f.res.kind = "claim" /\ o.f.res.found

\* The status columns of a store.
Statuses(d) ==
    [runs    |-> [r \in RunIdsOf(d) |-> d.runs[r].status],
     steps   |-> [i \in StepIdsOf(d) |-> d.steps[i].status],
     stories |-> [i \in StoryIdsOf(d) |-> d.stories[i].status]]

\* C35: a Complete call on a step that is already 'done' changes no status:
\* it promotes no 'waiting' step and does not mark the run 'completed'.
C35_CompleteIdempotent ==
    \A s \in BagToSet(handed) : \A o \in ReportsOf(db, s) :
        (db.steps[s].status = "done" /\ CanReport(db, s, o)) =>
            \A x \in Outcomes(db, CompleteFrame(s, o), now) :
                Statuses(x.db) = Statuses(db)

\* Step s is the verification step some loop step of its run is paired with.
PairedVerify(d, s) ==
    \E l \in StepsOfRun(d, d.steps[s].run_id) :
        d.steps[l].type = "loop" /\ s \in PairedVerifySteps(d, l)

\* C36: a single step that is 'done', and is not a paired verification
\* step, stays 'done' in every step of the system.
C36_DoneIsAbsorbing ==
    [][ \A s \in StepIdsOf(db) :
          (/\ db.steps[s].type = "single" /\ ~PairedVerify(db, s)
           /\ db.steps[s].status = "done")
              => db'.steps[s].status = "done" ]_vars

\* C37: a run that is 'running' has a step that is 'pending' or 'running'.
C37_NoStuckRun ==
    \A r \in RunIdsOf(db) :
        db.runs[r].status = "running" =>
            \E s \in StepsOfRun(db, r) : db.steps[s].status \in {"pending", "running"}

\* A run is 'running' after a step of it was completed and a step of it was
\* retried.
C37_Witness ==
    \E r \in RunIdsOf(db) :
        /\ db.runs[r].status = "running"
        /\ \E s \in StepsOfRun(db, r) : db.steps[s].status = "done"
        /\ \E s \in StepsOfRun(db, r) :
              db.steps[s].status = "pending" /\ db.steps[s].retry_count >= 1

\* C38: a paired verification step is 'pending' or 'running' only while its
\* loop step is 'running' with no story in progress and a 'done' story in
\* the run; and the advancer, entered from a Claim, Complete or Fail call,
\* never promotes a paired verification step.
C38_VerifyOnlyDuringLoop ==
    /\ \A l \in LoopSteps(db) : \A v \in PairedVerifySteps(db, l) :
          db.steps[v].status \in {"pending", "running"} =>
              /\ db.steps[l].status = "running"
              /\ db.steps[l].current_story_id = NoId
              /\ DoneStories(db, db.steps[l].run_id) # {}
    /\ \A f \in Issuable : \A x \in Visited(db, f, now) :
          x.f.pc = "a_promote" => ~PairedVerify(x.db, x.f.next)

\* C39: at most one story of a run is 'running', and whenever a story is
\* 'running' the loop step of its run is 'running' with current_story_id
\* pointing at that story, between any two Claim, Complete and Fail calls.
InProgressStories(d, r) ==
    { i \in StoriesOfRun(d, r) : d.stories[i].status = "running" }

C39_OneStoryInProgress ==
    \A r \in RunIdsOf(db) :
        /\ Cardinality(InProgressStories(db, r)) <= 1
        /\ \A i \in InProgressStories(db, r) :
              \E l \in LoopSteps(db) :
                  /\ db.steps[l].run_id = r
                  /\ db.steps[l].status = "running"
                  /\ db.steps[l].current_story_id = i

\* C40: while a loop step is 'running' with no story in progress and its
\* paired verification step is 'pending' or 'running', the sweep of a Claim,
\* whichever agent calls, leaves the loop step 'running' with its retry_count
\* and leaves the status of its run alone.
AwaitingVerification(d) ==
    { l \in LoopSteps(d) :
        /\ d.steps[l].status = "running"
        /\ d.steps[l].current_story_id = NoId
        /\ \E v \in PairedVerifySteps(d, l) :
              d.steps[v].status \in {"pending", "running"} }

C40_SweepSparesWaitingLoopStep ==
    \A l \in AwaitingVerification(db) :
        \A a \in AllAgents : \A x \in Visited(db, ClaimFrame(a), now) :
            x.f.pc = "c_selStep" =>
                /\ x.db.steps[l].status = "running"
                /\ x.db.steps[l].retry_count = db.steps[l].retry_count
                /\ x.db.runs[db.steps[l].run_id].status =
                       db.runs[db.steps[l].run_id].status

=========================================================================
